---- MODULE Spec2Model ----
(***************************************************************************)
(* Quotation document generation of the dashboard and quotation apps:      *)
(* seek_and_replace (text substitution over paragraphs, tables, headers    *)
(* and footers), populate_pricing_table_with_fixtures and                  *)
(* add_fixture_rows_to_table (pricing table population and row growth)     *)
(* and the order in which the three generation views call them.            *)
(*                                                                         *)
(* Text is a sequence of symbols.  A symbol stands for an indivisible      *)
(* piece of text ("Fixture", "In Words:", " ", "1", ...), so Python's      *)
(* substring test and str.replace are the subsequence test and the         *)
(* left-to-right non-overlapping replacement on symbol sequences.          *)
(* A run is [text, hl, pic]; a paragraph is a sequence of runs; a cell is  *)
(* a sequence of paragraphs; a row is a sequence of cells (one cell per    *)
(* grid column, no merged cells, no nested tables); a table is a sequence  *)
(* of rows.                                                                *)
(***************************************************************************)
EXTENDS Integers, Sequences, FiniteSets, TLC

VARIABLES
  response,         \* what the session's last quotation_download_file returned
  sr_calls,         \* the seek_and_replace calls made so far
  path,             \* which view runs: "generate", "download", "app", or "generic"
  pc,               \* the view's position
  doc,              \* the document being built
  doc0,             \* the document as seek_and_replace received it
  replacements,     \* the replacements dict, as the sequence of its items
  fixtures,         \* the fixture list (submitted, or stored for a download)
  quote_data,       \* the header fields
  todo,             \* the places seek_and_replace has still to visit
  idx,              \* loop variable of add_fixture_rows_to_table
  insert_position,  \* local of add_fixture_rows_to_table
  srFinished,       \* seek_and_replace has returned
  tableTouched,     \* table population or row growth has written to the table
  fillFailed,       \* the idx values whose cloned row fill raised
  quotations,       \* the Quotation table, in creation order (id = position)
  draft_images,     \* the DraftImage table
  session_file,     \* request.session['download_file'], as a set of at most one
  today,            \* datetime.now(): [year, month]
  invoices,         \* the stored invoice numbers
  calls,            \* the Invoice.save calls in progress: position and locals
  inquiries         \* the stored inquiries, in creation order

vars == <<response, sr_calls, path, pc, doc, doc0, replacements, fixtures, quote_data, todo, idx,
          insert_position, srFinished, tableTouched, fillFailed,
          quotations, draft_images, session_file, today, invoices, calls,
          inquiries>>

(***************************************************************************)
(* Bounds of the model                                                     *)
(***************************************************************************)
MaxMap == 2
MaxRuns == 2
MaxFixtures == 3
MaxQuotations == 2
MaxInquiries == 3
MaxCalls == 2
MaxHistory == 26

(***************************************************************************)
(* Strings                                                                 *)
(***************************************************************************)
Range(s) == {s[n] : n \in 1..Len(s)}

RECURSIVE Concat(_)
Concat(ss) == IF ss = <<>> THEN <<>> ELSE Head(ss) \o Concat(Tail(ss))

RECURSIVE Join(_, _)
Join(sep, ss) ==
  IF ss = <<>> THEN <<>>
  ELSE IF Len(ss) = 1 THEN Head(ss)
  ELSE Head(ss) \o sep \o Join(sep, Tail(ss))

MatchAt(s, k, n) ==
  /\ n >= 1
  /\ n + Len(k) - 1 <= Len(s)
  /\ \A m \in 1..Len(k) : s[n + m - 1] = k[m]

\* Python: k in s
Contains(s, k) ==
  \E n \in 1..(Len(s) - Len(k) + 1) : \A m \in 1..Len(k) : s[n + m - 1] = k[m]

StartsWith(s, k) == MatchAt(s, k, 1)

RECURSIVE ReplaceFrom(_, _, _, _)
ReplaceFrom(s, old, new, n) ==
  IF n > Len(s) THEN <<>>
  ELSE IF MatchAt(s, old, n) THEN new \o ReplaceFrom(s, old, new, n + Len(old))
  ELSE <<s[n]>> \o ReplaceFrom(s, old, new, n + 1)

RECURSIVE Interleave(_, _)
Interleave(s, new) ==
  IF s = <<>> THEN new ELSE new \o <<Head(s)>> \o Interleave(Tail(s), new)

\* Python: s.replace(old, new)
StrReplace(s, old, new) ==
  IF old = <<>> THEN Interleave(s, new) ELSE ReplaceFrom(s, old, new, 1)

\* number of places at which k occurs in s
Occurrences(s, k) == Cardinality({n \in 1..Len(s) : MatchAt(s, k, n)})

IsSpace(c) == c \in {" ", "\n"}

RECURSIVE LStrip(_)
LStrip(s) == IF s # <<>> /\ IsSpace(Head(s)) THEN LStrip(Tail(s)) ELSE s

RECURSIVE RStrip(_)
RStrip(s) ==
  IF s # <<>> /\ IsSpace(s[Len(s)]) THEN RStrip(SubSeq(s, 1, Len(s) - 1)) ELSE s

\* Python: s.strip()
Strip(s) == RStrip(LStrip(s))

Digits == {"1", "2", "3", "4", "5", "6"}

\* Python: s.isdigit()
IsDigit(s) == s # <<>> /\ \A n \in 1..Len(s) : s[n] \in Digits

\* Python: str(n) for the serial numbers written into the table
Str(n) ==
  CASE n = 1 -> <<"1">> [] n = 2 -> <<"2">> [] n = 3 -> <<"3">>
    [] n = 4 -> <<"4">> [] n = 5 -> <<"5">> [] OTHER -> <<"6">>

LowerSym(c) ==
  CASE c = "Fixture" -> "fixture"
    [] c = "Holding" -> "holding"
    [] c = "PCBA" -> "pcba"
    [] c = "In Words:" -> "in words:"
    [] c = "Sr" -> "sr"
    [] c = "Description" -> "description"
    [] c = "Image" -> "image"
    [] c = "Qty" -> "qty"
    [] c = "Rate" -> "rate"
    [] c = "Unit" -> "unit"
    [] c = "Per" -> "per"
    [] c = "Amount" -> "amount"
    [] OTHER -> c

\* Python: s.lower()
Lower(s) == [n \in 1..Len(s) |-> LowerSym(s[n])]

\* a string the document library refuses to store (a NUL or control character)
XmlOk(s) == "NUL" \notin Range(s)

(***************************************************************************)
(* Document objects (python-docx)                                          *)
(***************************************************************************)
Run(t, h) == [text |-> t, hl |-> h, pic |-> FALSE]

\* run.text = t : the run's content, a picture included, is replaced by t
SetRunText(run, t) == [run EXCEPT !.text = t, !.pic = FALSE]

\* "".join(run.text for run in paragraph.runs)
ParText(par) == Concat([n \in 1..Len(par) |-> par[n].text])

\* cell.text (getter): the paragraphs' texts joined by newlines
CellText(cell) == Join(<<"\n">>, [n \in 1..Len(cell) |-> ParText(cell[n])])

\* cell.text = t (setter): one paragraph holding one run
TextCell(t) == << <<Run(t, FALSE)>> >>

(***************************************************************************)
(* seek_and_replace                                                        *)
(***************************************************************************)
\* faulty variant: an empty replacement value is applied too
ReplaceEntryNoGuard(text, e) ==
  IF Contains(text, e.old) THEN StrReplace(text, e.old, e.new) ELSE text

\* one iteration of "for old, new in replacements.items()"
ReplaceEntry(text, e) ==
  IF e.new # <<>> /\ Contains(text, e.old)
  THEN StrReplace(text, e.old, e.new)
  ELSE text

RECURSIVE ApplyMapReversed(_, _)
\* faulty variant: the items are taken last to first
ApplyMapReversed(text, map) ==
  IF map = <<>> THEN text
  ELSE ApplyMapReversed(ReplaceEntry(text, map[Len(map)]), SubSeq(map, 1, Len(map) - 1))

RECURSIVE ApplyMap(_, _)
ApplyMap(text, map) ==
  IF map = <<>> THEN text
  ELSE ApplyMap(ReplaceEntry(text, Head(map)), Tail(map))

has_highlighted(par) == \E n \in 1..Len(par) : par[n].hl

\* faulty variant: the other runs keep their text
RewriteRunsKeep(par, replaced_text) ==
  IF par = <<>> THEN par
  ELSE [n \in 1..Len(par) |->
          IF n = 1 THEN SetRunText(par[n], replaced_text) ELSE par[n]]

\* the rebuild of a paragraph whose text changed: the highlighted branch
\* and the plain branch
RewriteRuns(par, replaced_text) ==
  IF has_highlighted(par)
  THEN IF par # <<>>
       THEN [n \in 1..Len(par) |->
               IF n = 1 THEN SetRunText(par[n], replaced_text)
               ELSE SetRunText(par[n], <<>>)]
       ELSE par
  ELSE LET cleared == [n \in 1..Len(par) |-> SetRunText(par[n], <<>>)]
       IN IF par # <<>>
          THEN [cleared EXCEPT ![1] = SetRunText(cleared[1], replaced_text)]
          ELSE cleared

\* faulty variant: the paragraph is rebuilt even when the text did not change
replace_in_paragraph_always(par, map) ==
  RewriteRuns(par, ApplyMap(ParText(par), map))

replace_in_paragraph(par, map) ==
  LET full_text == ParText(par)
      replaced_text == ApplyMap(full_text, map)
  IN IF replaced_text # full_text THEN RewriteRuns(par, replaced_text) ELSE par

ReplaceInCell(cell, map) ==
  [n \in 1..Len(cell) |-> replace_in_paragraph(cell[n], map)]

\* faulty variant: the Sr column of the pricing table is substituted like any other
SkipCellNever(row, c, is_pricing_table) == FALSE

\* the two "continue" tests of replace_in_table (cell_idx is c - 1)
SkipCell(row, c, is_pricing_table) ==
  \/ is_pricing_table /\ c - 1 = 0
  \/ /\ is_pricing_table /\ c - 1 = 3
     /\ Len(row) > 0 /\ IsDigit(Strip(CellText(row[1])))

\* one iteration of "for row_idx, row in enumerate(table.rows)"
ReplaceInRow(row, map, is_pricing_table) ==
  [c \in 1..Len(row) |->
     IF SkipCell(row, c, is_pricing_table) THEN row[c]
     ELSE ReplaceInCell(row[c], map)]

\* replace_in_table
ReplaceInTable(table, map, is_pricing_table) ==
  [r \in 1..Len(table) |-> ReplaceInRow(table[r], map, is_pricing_table)]

ReplaceInParagraphs(paras, map) ==
  [n \in 1..Len(paras) |-> replace_in_paragraph(paras[n], map)]

\* the three loops of seek_and_replace, the second one table by table
SRTodo(d) ==
  << <<"paragraphs", 0>> >>
  \o [t \in 1..Len(d.tables) |-> <<"table", t>>]
  \o << <<"sections", 0>> >>

(***************************************************************************)
(* Pricing table: header scan, row detection, fill                         *)
(***************************************************************************)
Roles == {"sr", "description", "image", "qty", "rate", "per", "amount"}

\* the if/elif chain applied to one header cell's text
HeaderRole(header_text) ==
  IF Contains(header_text, <<"sr">>) \/ Contains(header_text, <<"serial">>) THEN "sr"
  ELSE IF Contains(header_text, <<"description">>) THEN "description"
  ELSE IF Contains(header_text, <<"image">>) THEN "image"
  ELSE IF Contains(header_text, <<"qty">>) \/ Contains(header_text, <<"quantity">>) THEN "qty"
  ELSE IF Contains(header_text, <<"rate">>) THEN "rate"
  ELSE IF Contains(header_text, <<"per">>) \/ Contains(header_text, <<"unit">>) THEN "per"
  ELSE IF Contains(header_text, <<"amount">>) THEN "amount"
  ELSE "none"

SetMax(S) == CHOOSE x \in S : \A y \in S : y <= x

\* faulty variant: a role without header keyword is given column 0
ColumnPositionsDefaulted(table) ==
  LET header_row == IF Len(table) > 0 THEN table[1] ELSE <<>>
      role(c) == HeaderRole(Lower(Strip(CellText(header_row[c]))))
      cols(rl) == {c \in 1..Len(header_row) : role(c) = rl}
  IN [rl \in Roles |-> IF cols(rl) # {} THEN SetMax(cols(rl)) - 1 ELSE 0]

\* column_positions: role -> 0-based column index, the last match winning
ColumnPositions(table) ==
  LET header_row == IF Len(table) > 0 THEN table[1] ELSE <<>>
      role(c) == HeaderRole(Lower(Strip(CellText(header_row[c]))))
      cols(rl) == {c \in 1..Len(header_row) : role(c) = rl}
  IN [rl \in {x \in Roles : cols(x) # {}} |-> SetMax(cols(rl)) - 1]

Has(column_positions, rl, cells) ==
  rl \in DOMAIN column_positions /\ column_positions[rl] < Len(cells)

\* " ".join([cell.text.strip() for cell in row.cells]).lower()
RowText(row) == Lower(Join(<<" ">>, [c \in 1..Len(row) |-> Strip(CellText(row[c]))]))

IsFixtureRowText(row_text) ==
  /\ Contains(row_text, <<"fixture">>)
  /\ \/ Contains(row_text, <<"holding">>)
     \/ Contains(row_text, <<"pulling">>)
     \/ Contains(row_text, <<"connector">>)
     \/ Contains(row_text, <<"pcba">>)

SetMin(S) == CHOOSE x \in S : \A y \in S : x <= y

\* fixture_num of a row that matched the fixture pattern (0-based)
FixtureNum(row_text, nfixtures, nfound) ==
  IF Contains(row_text, <<"fixture", " ", "1">>) \/ Contains(row_text, <<"holding">>) THEN 0
  ELSE IF Contains(row_text, <<"fixture", " ", "2">>) \/ Contains(row_text, <<"pulling">>) THEN 1
  ELSE LET named == {n \in 0..(nfixtures - 1) :
                       Contains(row_text, <<"fixture", " ">> \o Str(n + 1))}
       IN IF named # {} THEN SetMin(named) ELSE nfound

\* STEP 2: the list of (r_idx, fixture_num) pairs, r_idx 0-based
RECURSIVE FindFixtureRows(_, _, _, _)
FindFixtureRows(table, nfixtures, r, found) ==
  IF r > Len(table) THEN found
  ELSE LET row_text == RowText(table[r])
           fixture_num == FixtureNum(row_text, nfixtures, Len(found))
       IN IF IsFixtureRowText(row_text) /\ fixture_num < nfixtures
          THEN FindFixtureRows(table, nfixtures, r + 1,
                               Append(found, <<r - 1, fixture_num>>))
          ELSE FindFixtureRows(table, nfixtures, r + 1, found)

\* the description cell's text
DescriptionText(fixture) ==
  LET first == IF fixture.name # <<>> \/ fixture.desc # <<>>
               THEN << Strip(fixture.name \o <<" ">> \o fixture.desc) >>
               ELSE <<>>
      hsn == IF fixture.hsn # <<>>
             THEN << <<"HSN Code:", " ">> \o fixture.hsn >> ELSE <<>>
      spec == IF Strip(fixture.specifications) # <<>>
              THEN << <<"Specifications:", " ">> \o fixture.specifications >>
              ELSE <<>>
  IN Join(<<"\n">>, first \o << <<"(as per annexure)">> >> \o hsn \o spec)

\* a cell write: the new cell content and whether the write is accepted
TextWrite(col, t) == [col |-> col, cell |-> TextCell(t), ok |-> XmlOk(t)]

PictureCell == << << [text |-> <<>>, hl |-> FALSE, pic |-> TRUE] >> >>

ImagePlaceholder(fixture) == <<"[Image:", " ">> \o fixture.name \o <<"]">>

\* faulty variant: an image that cannot be embedded raises
ImageWriteRaising(col, fixture) ==
  IF fixture.image = "none" THEN TextWrite(col, <<>>)
  ELSE IF fixture.image = "ok" THEN [col |-> col, cell |-> PictureCell, ok |-> TRUE]
  ELSE [col |-> col, cell |-> PictureCell, ok |-> FALSE]

\* faulty variant: a fixture without image gets the placeholder too
ImageWriteAlwaysPlaceholder(col, fixture) ==
  IF fixture.image = "ok" THEN [col |-> col, cell |-> PictureCell, ok |-> TRUE]
  ELSE TextWrite(col, ImagePlaceholder(fixture))

\* the image column: _insert_image_in_cell and the caller's fallback
ImageWrite(col, fixture) ==
  IF fixture.image = "none" THEN TextWrite(col, <<>>)
  ELSE IF fixture.image = "ok" THEN [col |-> col, cell |-> PictureCell, ok |-> TRUE]
  ELSE TextWrite(col, ImagePlaceholder(fixture))

\* writes are applied in order; the first refused write raises
RECURSIVE ApplyWrites(_, _)
ApplyWrites(cells, writes) ==
  IF writes = <<>> THEN [cells |-> cells, ok |-> TRUE]
  ELSE IF ~Head(writes).ok THEN [cells |-> cells, ok |-> FALSE]
  ELSE ApplyWrites([cells EXCEPT ![Head(writes).col + 1] = Head(writes).cell],
                   Tail(writes))

Opt(cond, w) == IF cond THEN <<w>> ELSE <<>>

\* the writes that place one fixture's data, Sr first
DataWrites(column_positions, cells, fixture, serial) ==
  LET cp == column_positions
  IN Opt(Has(cp, "sr", cells), TextWrite(cp["sr"], Str(serial)))
     \o Opt(Has(cp, "description", cells),
            TextWrite(cp["description"], DescriptionText(fixture)))
     \o Opt(Has(cp, "image", cells), ImageWrite(cp["image"], fixture))
     \o Opt(Has(cp, "qty", cells), TextWrite(cp["qty"], fixture.qty))
     \o Opt(Has(cp, "rate", cells), TextWrite(cp["rate"], fixture.price))
     \o Opt(Has(cp, "per", cells), TextWrite(cp["per"], fixture.unit))
     \o Opt(Has(cp, "amount", cells), TextWrite(cp["amount"], fixture.total))

\* STEP 3 for one row: clear the mapped data cells except the image cell
ClearDataCells(column_positions, cells) ==
  [c \in 1..Len(cells) |->
     IF \E rl \in DOMAIN column_positions :
          rl # "image" /\ column_positions[rl] = c - 1
     THEN TextCell(<<>>) ELSE cells[c]]

RECURSIVE FillFixtureRows(_, _, _, _)
FillFixtureRows(table, column_positions, fixtures_data, fixture_rows) ==
  IF fixture_rows = <<>> THEN [table |-> table, ok |-> TRUE]
  ELSE LET r == Head(fixture_rows)[1] + 1
           fixture_idx == Head(fixture_rows)[2]
           cleared == ClearDataCells(column_positions, table[r])
           res == ApplyWrites(cleared,
                              DataWrites(column_positions, cleared,
                                         fixtures_data[fixture_idx + 1],
                                         fixture_idx + 1))
       IN IF res.ok
          THEN FillFixtureRows([table EXCEPT ![r] = res.cells], column_positions,
                               fixtures_data, Tail(fixture_rows))
          ELSE [table |-> table, ok |-> FALSE]

\* STEP 4: the 1-based indices of the rows whose text contains "in words:"
WordsRows(table) ==
  LET S == {r \in 2..Len(table) : Contains(RowText(table[r]), <<"in words:">>)}
      nth[n \in 1..Cardinality(S)] ==
        IF n = 1 THEN SetMin(S) ELSE SetMin({r \in S : r > nth[n - 1]})
  IN [n \in 1..Cardinality(S) |-> nth[n]]

WordsText(fixture) == <<"In Words:", " ">> \o fixture.words

\* faulty variant: the words start at the Sr column instead of the description column
WordsWritesFromSr(column_positions, cells, fixture) ==
  [c \in 1..Len(cells) |-> TextWrite(c - 1, WordsText(fixture))]

\* the writes into one words row
WordsWrites(column_positions, cells, fixture) ==
  LET cp == column_positions
      start_col == IF "description" \in DOMAIN cp THEN cp["description"] ELSE 1
  IN Opt(Has(cp, "sr", cells), TextWrite(cp["sr"], <<>>))
     \o [n \in 1..(Len(cells) - start_col) |->
           TextWrite(start_col + n - 1, WordsText(fixture))]

RECURSIVE FillWordsRows(_, _, _, _, _)
FillWordsRows(table, column_positions, fixtures_data, words_rows, n) ==
  IF n > Len(words_rows) THEN [table |-> table, ok |-> TRUE]
  ELSE IF n > Len(fixtures_data)
  THEN FillWordsRows(table, column_positions, fixtures_data, words_rows, n + 1)
  ELSE LET r == words_rows[n]
           res == ApplyWrites(table[r],
                              WordsWrites(column_positions, table[r], fixtures_data[n]))
       IN IF res.ok
          THEN FillWordsRows([table EXCEPT ![r] = res.cells], column_positions,
                             fixtures_data, words_rows, n + 1)
          ELSE [table |-> table, ok |-> FALSE]

\* populate_pricing_table_with_fixtures, STEP 1 to STEP 3
PopulateFixtureRows(table, fixtures_data) ==
  LET column_positions == ColumnPositions(table)
      fixture_rows == FindFixtureRows(table, Len(fixtures_data), 2, <<>>)
  IN FillFixtureRows(table, column_positions, fixtures_data, fixture_rows)

\* populate_pricing_table_with_fixtures, STEP 4
PopulateWordsRows(table, fixtures_data) ==
  FillWordsRows(table, ColumnPositions(table), fixtures_data, WordsRows(table), 1)

\* _clone_row_at_position: the table with the copy of source_row inserted
CloneRowAtPosition(table, source_row, position) ==
  IF position >= Len(table) THEN Append(table, source_row)
  ELSE SubSeq(table, 1, position) \o <<source_row>>
       \o SubSeq(table, position + 1, Len(table))

ClearAllCells(cells) == [c \in 1..Len(cells) |-> TextCell(<<>>)]

(***************************************************************************)
(* The template document                                                   *)
(***************************************************************************)
W1 == "Twenty-Six Thousand Eight Hundred Seventy-Nine INR Only PER EACH"
W2 == "Twenty-Nine Thousand Five Hundred Forty-Six INR Only PER EACH"
K_FIRM == "Schneider Electric India Private Limited"
K_DATE == "Wednesday, September 24, 2025"
K_ADDR == "Electrical & Automation (E&A), Village Ankhol"
K_PAY == "Payment: 45 Days from delivery (Being an MSME)"
K_DEL == "Delivery: 2-3 weeks per fixture from Purchase Order (Gov.)"

Par(t) == <<Run(t, FALSE)>>

\* body paragraphs holding the literals the replacement map looks for
TemplateParas ==
  << << Run(<<"Quote Number: ">>, FALSE), Run(<<"KEC005JN2025", "\n">>, TRUE),
        Run(<<"Revision: ">>, FALSE), Run(<<"Rev", " ", "A", "\n">>, FALSE),
        Run(<<"Date: ">>, FALSE), Run(<<K_DATE, "\n">>, FALSE) >>,
     << Run(<<"To: ">>, FALSE), Run(<<"Mr. Mohak Dholakia", "\n">>, FALSE),
        Run(<<"Company: ">>, FALSE), Run(<<K_FIRM, "\n">>, FALSE),
        Run(<<"Address: ">>, FALSE), Run(<<K_ADDR, "\n">>, FALSE) >>,
     << Run(<<"Payment Terms: ">>, FALSE), Run(<<K_PAY, "\n">>, FALSE),
        Run(<<"Delivery Terms: ">>, FALSE), Run(<<K_DEL, "\n">>, FALSE) >>,
     Par(<<"<inclusion>">>),
     Par(<<"<scope>">>),
     Par(<<"<specification>">>) >>

HeaderBasic ==
  << <<"Sr", ".">>, <<"Description">>, <<"Qty">>, <<"Rate">>, <<"Unit">>, <<"Amount">> >>

HeaderImage ==
  << <<"Sr", ".">>, <<"Description">>, <<"Image">>, <<"Qty">>, <<"Rate">>,
     <<"Per">>, <<"Amount">> >>

Layouts == {HeaderBasic, HeaderImage}

TemplateDescription(n) ==
  IF n = 1
  THEN <<"Fixture", " ", "1", " ", "Holding", " ", "minitop", " ", "connector", "\n",
         "(as per annexure)", "\n", "HSN Code:", " ", "84790000">>
  ELSE <<"Fixture", " ", "2", " ", "pulling", " ", "minitop", " ", "PCBA", "\n",
         "(as per annexure)", "\n", "HSN Code:", " ", "84790000">>

\* a sample fixture row of the template
TemplateFixtureRow(layout, n) ==
  LET price == IF n = 1 THEN <<"26,879/-">> ELSE <<"29,546/-">>
      content(rl) ==
        CASE rl = "sr" -> TextCell(Str(n))
          [] rl = "description" -> TextCell(TemplateDescription(n))
          [] rl = "image" -> << <<>> >>
          [] rl = "qty" -> TextCell(<<"1">>)
          [] rl = "rate" -> TextCell(price)
          [] rl = "per" -> TextCell(<<"Set">>)
          [] rl = "amount" -> TextCell(price)
          [] OTHER -> << <<>> >>
  IN [c \in 1..Len(layout) |-> content(HeaderRole(Lower(layout[c])))]

\* a sample words row of the template: every cell holds the words text
TemplateWordsRow(layout, n) ==
  [c \in 1..Len(layout) |->
     TextCell(<<"In Words:", " ", IF n = 1 THEN W1 ELSE W2>>)]

\* header row, then two fixture-row/words-row pairs
TemplatePricingTable(layout) ==
  << [c \in 1..Len(layout) |-> TextCell(layout[c])],
     TemplateFixtureRow(layout, 1), TemplateWordsRow(layout, 1),
     TemplateFixtureRow(layout, 2), TemplateWordsRow(layout, 2) >>

\* the table that precedes the pricing table
TemplateFirstTable ==
  << << TextCell(<<"Quote No">>), TextCell(<<"KEC005JN2025">>),
        TextCell(<<"Rev", " ", "A">>), TextCell(<<"Mr. Mohak Dholakia">>) >> >>

Template(layout) ==
  [paras |-> TemplateParas,
   tables |-> <<TemplateFirstTable, TemplatePricingTable(layout)>>,
   header |-> << Par(<<"KEC005JN2025", " ", "Rev", " ", "A">>) >>,
   footer |-> << Par(<<K_FIRM>>) >>]

(***************************************************************************)
(* Fixtures and form data                                                  *)
(***************************************************************************)
Fx(name, desc, qty, price, words, specs, image) ==
  [name |-> name, desc |-> desc, hsn |-> <<"84790000">>, qty |-> qty,
   unit |-> <<"Set">>, price |-> price, total |-> price, words |-> words,
   specifications |-> specs, has_image |-> image # "none", image |-> image]

FixturePool ==
  { Fx(<<"Jig">>, <<"A">>, <<"1">>, <<"100">>, <<"One Hundred">>, <<>>, "none"),
    Fx(<<"Clamp">>, <<>>, <<"2">>, <<"200">>, <<"Two Hundred">>, <<"steel">>, "ok"),
    Fx(<<"Probe">>, <<"B">>, <<"1">>, <<"300">>, <<"Three Hundred">>, <<>>, "broken"),
    Fx(<<"In Words:", " ", "Jig">>, <<>>, <<"1">>, <<"100">>, <<"One Hundred">>, <<>>,
       "none"),
    Fx(<<"Vise">>, <<>>, <<"1", "NUL">>, <<"100">>, <<"One Hundred">>, <<>>, "none"),
    Fx(<<>>, <<>>, <<"1">>, <<>>, <<>>, <<>>, "none") }

RECURSIVE SeqsUpTo(_, _)
SeqsUpTo(S, n) ==
  IF n = 0 THEN {<<>>}
  ELSE LET shorter == SeqsUpTo(S, n - 1)
       IN shorter \cup {Append(q, x) : q \in {y \in shorter : Len(y) = n - 1}, x \in S}

\* the fixture appended while fewer than two fixtures were submitted
PaddingFixture(n) ==
  [name |-> <<"Fixture", " ">> \o Str(n), desc |-> <<>>, hsn |-> <<"84790000">>,
   qty |-> <<"1">>, unit |-> <<"Set">>, price |-> <<>>, total |-> <<>>,
   words |-> <<>>, specifications |-> <<>>, has_image |-> FALSE, image |-> "none"]

RECURSIVE PadFixtures(_)
PadFixtures(fx) ==
  IF Len(fx) < 2 THEN PadFixtures(Append(fx, PaddingFixture(Len(fx) + 1))) ELSE fx

QuoteData(to_person) ==
  [quote_no |-> <<"KEC011">>, revision |-> <<"Rev", " ", "A">>, date |-> <<"Monday">>,
   to_person |-> to_person, firm |-> <<"Acme">>, address |-> <<"Pune">>,
   payment_terms |-> <<"Advance">>, delivery_terms |-> <<"4 weeks">>,
   scope_desc |-> <<>>]

Entry(old, new) == [old |-> old, new |-> new]

\* the inclusion block of one fixture (idx is 1-based)
InclusionText(fixture, n) ==
  LET parts == Opt(fixture.name # <<>>, <<"Product Name:", " ">> \o fixture.name)
               \o Opt(fixture.desc # <<>>, <<"Description:", " ">> \o fixture.desc)
               \o << <<"(as per annexure)">> >>
               \o Opt(fixture.hsn # <<>>, <<"HSN Code:", " ">> \o fixture.hsn)
               \o Opt(Strip(fixture.specifications) # <<>>,
                      <<"Specifications:", " ">> \o fixture.specifications)
  IN Str(n) \o <<".", " ">> \o Join(<<"\n", "   ">>, parts)

Listed(fixture) == fixture.name # <<>> \/ fixture.desc # <<>>

RECURSIVE SelectIdx(_, _, _)
\* the 1-based positions n of fx, in order, for which keep[n] holds
SelectIdx(keep, n, len) ==
  IF n > len THEN <<>>
  ELSE (IF keep[n] THEN <<n>> ELSE <<>>) \o SelectIdx(keep, n + 1, len)

inclusion_content(fx) ==
  LET ns == SelectIdx([n \in 1..Len(fx) |-> Listed(fx[n])], 1, Len(fx))
  IN IF ns # <<>>
     THEN Join(<<"\n", "\n">>, [m \in 1..Len(ns) |-> InclusionText(fx[ns[m]], ns[m])])
     ELSE <<"Fixtures as per discussion">>

\* faulty variant: the listed fixtures are counted, not numbered by position
scope_content_renumbered(fx) ==
  LET ns == SelectIdx([n \in 1..Len(fx) |-> Listed(fx[n])], 1, Len(fx))
  IN IF ns # <<>>
     THEN Join(<<"\n">>, [m \in 1..Len(ns) |->
                 Str(m) \o <<".", " ">> \o fx[ns[m]].name \o <<" ", "-", " ">>
                 \o fx[ns[m]].desc])
     ELSE <<"Design & manufacturing of fixtures as per discussion">>

scope_content(fx) ==
  LET ns == SelectIdx([n \in 1..Len(fx) |-> Listed(fx[n])], 1, Len(fx))
  IN IF ns # <<>>
     THEN Join(<<"\n">>, [m \in 1..Len(ns) |->
                 Str(ns[m]) \o <<".", " ">> \o fx[ns[m]].name \o <<" ", "-", " ">>
                 \o fx[ns[m]].desc])
     ELSE <<"Design & manufacturing of fixtures as per discussion">>

specification_content(fx) ==
  LET ns == SelectIdx([n \in 1..Len(fx) |-> Strip(fx[n].specifications) # <<>>],
                      1, Len(fx))
  IN IF ns # <<>>
     THEN Join(<<"\n", "\n">>, [m \in 1..Len(ns) |->
                 Str(ns[m]) \o <<".", " ">> \o fx[ns[m]].name \o <<":", "\n">>
                 \o fx[ns[m]].specifications])
     ELSE <<"Specifications as per discussion and drawings.">>

OrDefault(v, d) == IF v # <<>> THEN v ELSE d

\* dashboard generate_quotation: the replacements dict, in insertion order
GenerateReplacements(qd, fx) ==
  << Entry(<<"KEC005JN2025">>, qd.quote_no),
     Entry(<<"Rev", " ", "A">>, qd.revision),
     Entry(<<K_DATE>>, qd.date),
     Entry(<<"Mr. Mohak Dholakia">>, qd.to_person),
     Entry(<<K_FIRM>>, qd.firm),
     Entry(<<K_ADDR>>, qd.address),
     Entry(<<K_PAY>>, qd.payment_terms),
     Entry(<<K_DEL>>, qd.delivery_terms),
     Entry(<<"<inclusion>">>, inclusion_content(fx)),
     Entry(<<"<scope>">>, scope_content(fx)),
     Entry(<<"<specification>">>, specification_content(fx)),
     Entry(<<"< specification>">>, specification_content(fx)),
     Entry(<<"26,879/-">>, OrDefault(fx[1].price, <<"26,879/-">>)),
     Entry(<<W1>>, OrDefault(fx[1].words, <<W1>>)),
     Entry(<<"29,546/-">>, OrDefault(fx[2].price, <<"29,546/-">>)),
     Entry(<<W2>>, OrDefault(fx[2].words, <<W2>>)) >>

\* the "Product Image" line quotation_download adds for a stored has_image
DownloadInclusionText(fixture, n) ==
  InclusionText(fixture, n)
  \o (IF fixture.has_image
      THEN <<"\n", "   ", "Product Image: (Image was included in original quotation)">>
      ELSE <<>>)

download_inclusion_content(fx) ==
  LET ns == SelectIdx([n \in 1..Len(fx) |-> Listed(fx[n])], 1, Len(fx))
  IN IF ns # <<>>
     THEN Join(<<"\n", "\n">>,
               [m \in 1..Len(ns) |-> DownloadInclusionText(fx[ns[m]], ns[m])])
     ELSE <<"Fixtures as per discussion">>

\* quotation_download: the replacements dict, in insertion order
DownloadReplacements(qd, fx) ==
  << Entry(<<"KEC005JN2025">>, qd.quote_no),
     Entry(<<"Rev", " ", "A">>, qd.revision),
     Entry(<<K_DATE>>, qd.date),
     Entry(<<"Mr. Mohak Dholakia">>, qd.to_person),
     Entry(<<K_FIRM>>, qd.firm),
     Entry(<<K_ADDR>>, qd.address),
     Entry(<<K_PAY>>, qd.payment_terms),
     Entry(<<K_DEL>>, qd.delivery_terms),
     Entry(<<"Fixtures as per discussion:">>, scope_content(fx)),
     Entry(<<"<inclusion>">>, download_inclusion_content(fx)),
     Entry(<<"<specification>">>, specification_content(fx)),
     Entry(<<"< specification>">>, specification_content(fx)) >>
  \o (IF Len(fx) >= 1
      THEN << Entry(<<"26,879/-">>, fx[1].price), Entry(<<W1>>, fx[1].words) >>
      ELSE <<>>)
  \o (IF Len(fx) >= 2
      THEN << Entry(<<"29,546/-">>, fx[2].price), Entry(<<W2>>, fx[2].words) >>
      ELSE <<>>)

\* quotation app generate_quotation: the replacements dict, in insertion order
AppReplacements(qd, fx) ==
  << Entry(<<"KEC005JN2025">>, qd.quote_no),
     Entry(<<"Rev", " ", "A">>, qd.revision),
     Entry(<<K_DATE>>, qd.date),
     Entry(<<"Mr. Mohak Dholakia">>, qd.to_person),
     Entry(<<K_FIRM>>, qd.firm),
     Entry(<<K_ADDR>>, qd.address),
     Entry(<<K_PAY>>, qd.payment_terms),
     Entry(<<K_DEL>>, qd.delivery_terms),
     Entry(<<"Fixtures as per discussion:">>, qd.scope_desc),
     Entry(<<"Design & manufacturing of small size fixtures">>, <<>>),
     Entry(<<"Supply">>, <<>>) >>
  \o (IF Len(fx) >= 1
      THEN << Entry(<<"Fixture", " ", "1", " ">>, fx[1].name \o <<" ">>),
              Entry(<<"Holding", " ", "minitop", " ", "connector">>, fx[1].desc),
              Entry(<<"26,879/-">>, fx[1].price), Entry(<<W1>>, fx[1].words) >>
      ELSE <<>>)
  \o (IF Len(fx) >= 2
      THEN << Entry(<<"Fixture", " ", "2", " ">>, fx[2].name \o <<" ">>),
              Entry(<<"pulling", " ", "minitop", " ", "PCBA">>, fx[2].desc),
              Entry(<<"29,546/-">>, fx[2].price), Entry(<<W2>>, fx[2].words) >>
      ELSE <<>>)

(***************************************************************************)
(* insert_images_in_inclusion_section                                      *)
(***************************************************************************)
\* length in characters of the symbols that occur in inclusion content
SymLen(c) ==
  CASE c = "Product Name:" -> 13
    [] c = "Description:" -> 12
    [] c = "(as per annexure)" -> 17
    [] c = "HSN Code:" -> 9
    [] c = "Specifications:" -> 15
    [] c = "84790000" -> 8
    [] c = "Fixtures as per discussion" -> 26
    [] c \in {" ", "\n", ".", "NUL"} \cup Digits -> 1
    [] c = "   " -> 3
    [] OTHER -> 5

RECURSIVE CharLen(_)
CharLen(s) == IF s = <<>> THEN 0 ELSE SymLen(Head(s)) + CharLen(Tail(s))

IsInclusionParagraph(par) ==
  LET para_text == Strip(ParText(par))
  IN \/ Contains(para_text, <<"1", ".", " ", "Product Name:">>)
     \/ Contains(para_text, <<"Product Name:">>) /\ CharLen(para_text) > 50

TextRun(t) == [run |-> Run(t, FALSE), ok |-> XmlOk(t)]
BreakRun == [run |-> Run(<<"\n">>, FALSE), ok |-> TRUE]

\* the runs added for one fixture (n is the 1-based enumerate index)
InclusionRuns(fixture, n, nlisted) ==
  << TextRun(Str(n) \o <<".", " ", "Product Name:", " ">> \o fixture.name), BreakRun >>
  \o (IF fixture.image = "ok"
      THEN << [run |-> [text |-> <<>>, hl |-> FALSE, pic |-> TRUE], ok |-> TRUE],
              BreakRun >>
      ELSE IF fixture.image = "broken"
      THEN << TextRun(<<>>), TextRun(<<"   ", "[Image could not be loaded]">>),
              BreakRun >>
      ELSE <<>>)
  \o (IF fixture.desc # <<>>
      THEN << TextRun(<<"   ", "Description:", " ">> \o fixture.desc), BreakRun >>
      ELSE <<>>)
  \o << TextRun(<<"   ", "(as per annexure)">>), BreakRun >>
  \o (IF fixture.hsn # <<>>
      THEN << TextRun(<<"   ", "HSN Code:", " ">> \o fixture.hsn), BreakRun >>
      ELSE <<>>)
  \o (IF Strip(fixture.specifications) # <<>>
      THEN << TextRun(<<"   ", "Specifications:", " ">> \o fixture.specifications),
              BreakRun >>
      ELSE <<>>)
  \o (IF n < nlisted THEN <<BreakRun>> ELSE <<>>)

\* the runs are added in order; the first refused one ends the rebuild
RECURSIVE AddRuns(_, _)
AddRuns(par, adds) ==
  IF adds = <<>> \/ ~Head(adds).ok THEN par
  ELSE AddRuns(Append(par, Head(adds).run), Tail(adds))

insert_images_in_inclusion_section(d, fixtures_data) ==
  LET found == {n \in 1..Len(d.paras) : IsInclusionParagraph(d.paras[n])}
      ns == SelectIdx([n \in 1..Len(fixtures_data) |-> Listed(fixtures_data[n])],
                      1, Len(fixtures_data))
      adds == Concat([m \in 1..Len(ns) |->
                        InclusionRuns(fixtures_data[ns[m]], ns[m], Len(ns))])
  IN IF found = {} THEN d
     ELSE [d EXCEPT !.paras[SetMin(found)] = AddRuns(<<>>, adds)]

(***************************************************************************)
(* Inputs                                                                  *)
(***************************************************************************)
RunPool ==
  { Run(<<>>, FALSE), Run(<<"a">>, FALSE), Run(<<"b">>, TRUE),
    Run(<<"a", "b">>, FALSE), Run(<<"b", "a">>, TRUE) }

ParaPool == SeqsUpTo(RunPool, MaxRuns)

KeyPool == { <<"a">>, <<"b">>, <<"a", "b">> }
ValPool == { <<>>, <<"a">>, <<"b">>, <<"a", "a">> }

RECURSIVE MapsUpTo(_)
\* the dicts of at most n items: the keys of a dict are distinct
MapsUpTo(n) ==
  IF n = 0 THEN {<<>>}
  ELSE LET shorter == MapsUpTo(n - 1)
       IN shorter \cup
          {Append(m, Entry(k, v)) :
             m \in {y \in shorter : Len(y) = n - 1},
             k \in KeyPool, v \in ValPool}

DistinctKeys(m) == \A a, b \in 1..Len(m) : a # b => m[a].old # m[b].old

GenericMaps == {m \in MapsUpTo(MaxMap) : DistinctKeys(m)}

\* the paragraph p without its highlighting
Unhighlighted(p) == [n \in 1..Len(p) |-> [p[n] EXCEPT !.hl = FALSE]]

\* a document whose every text-bearing place holds the paragraph p,
\* the footer holding it without highlighting
GenericDoc(p) ==
  [paras |-> <<p, <<>>>>,
   tables |-> << << << <<p>>, <<p, p>> >> >>,
                 << << <<p>>, <<p>>, <<p>>, <<p>> >>,
                    << TextCell(<<"1">>), <<p>>, <<p>>, <<p>> >> >> >>,
   header |-> <<p>>,
   footer |-> <<Unhighlighted(p)>>]

\* a header with the Image column in fourth place
HeaderImageAt3 ==
  << <<"Sr", ".">>, <<"Description">>, <<"Qty">>, <<"Image">>, <<"Rate">>,
     <<"Per">>, <<"Amount">> >>

ImageLayouts == {HeaderImage, HeaderImageAt3}

\* a document whose pricing table has a header row, an item row (numeric
\* serial) and a label row, every other cell holding the paragraph p
ImageDoc(p, layout) ==
  [paras |-> <<p>>,
   tables |-> << << << <<p>> >> >>,
                 << [c \in 1..Len(layout) |-> TextCell(layout[c])],
                    [c \in 1..Len(layout) |-> IF c = 1 THEN TextCell(<<"1">>) ELSE <<p>>],
                    [c \in 1..Len(layout) |-> <<p>>] >> >>,
   header |-> <<p>>,
   footer |-> <<p>>]

\* the 7-column template table cut to nrows rows, the header cell of the
\* role absent holding a text without keyword
FillTable(absent, nrows) ==
  LET full == TemplatePricingTable(HeaderImage)
      header == [c \in 1..Len(HeaderImage) |->
                   IF HeaderRole(Lower(HeaderImage[c])) = absent
                   THEN TextCell(<<"Notes">>) ELSE full[1][c]]
  IN SubSeq(<<header>> \o Tail(full), 1, nrows)

FillDoc(absent, nrows) ==
  [paras |-> <<>>,
   tables |-> <<TemplateFirstTable, FillTable(absent, nrows)>>,
   header |-> <<>>,
   footer |-> <<>>]

\* fixtures whose values differ from each other and from the template's
FillFixturePool ==
  { [Fx(<<"Jig">>, <<"A">>, <<"5">>, <<"100">>, <<"One Hundred">>, <<>>, "broken")
       EXCEPT !.total = <<"500">>, !.unit = <<"Nos">>],
    [Fx(<<"Clamp">>, <<>>, <<"6">>, <<"200">>, <<"Two Hundred">>, <<"steel">>, "ok")
       EXCEPT !.total = <<"1200">>, !.unit = <<"Pair">>] }

\* faulty variant: the image bytes stay in the stored entry
StoredWithImage(fixture) == fixture

\* the stored form of a fixture: no image bytes
Stored(fixture) == [fixture EXCEPT !.image = "none"]

\* quotation_download: fixtures_for_doc
FixturesForDoc(fx) ==
  [n \in 1..Len(fx) |-> [fx[n] EXCEPT !.image = "none", !.has_image = FALSE]]

(***************************************************************************)
(* The quotation store                                                     *)
(***************************************************************************)
Alphabet ==
  <<"A", "B", "C", "D", "E", "F", "G", "H", "I", "J", "K", "L", "M", "N", "O",
    "P", "Q", "R", "S", "T", "U", "V", "W", "X", "Y", "Z", "[">>

\* Python: c.isalpha(), for the upper-case letters the model writes
IsAlpha(c) == \E n \in 1..(Len(Alphabet) - 1) : Alphabet[n] = c

\* Python: chr(ord(c) + 1)
NextLetter(c) == Alphabet[(CHOOSE n \in 1..(Len(Alphabet) - 1) : Alphabet[n] = c) + 1]

RevA == <<"Rev", " ", "A">>
RevB == <<"Rev", " ", "B">>

increment_revision(current_revision) ==
  IF current_revision = <<>> THEN RevA
  ELSE IF ~StartsWith(current_revision, <<"Rev", " ">>) THEN RevB
  ELSE LET revision_letter == Strip(SubSeq(current_revision, 3, Len(current_revision)))
       IN IF Len(revision_letter) = 1 /\ IsAlpha(revision_letter[1])
          THEN <<"Rev", " ", NextLetter(revision_letter[1])>>
          ELSE RevB

\* Python: quote_no.split('_')[0]
RECURSIVE BaseQuoteNo(_)
BaseQuoteNo(quote_no) ==
  IF quote_no = <<>> \/ Head(quote_no) = "_" THEN <<>>
  ELSE <<Head(quote_no)>> \o BaseQuoteNo(Tail(quote_no))

\* f"{base_quote_no}_{new_revision.replace(' ', '').replace('Rev', 'R')}"
RegeneratedNumber(base_quote_no, new_revision) ==
  base_quote_no \o <<"_">>
    \o StrReplace(StrReplace(new_revision, <<" ">>, <<>>), <<"Rev">>, <<"R">>)

\* quote_number is unique: the row cannot be written under this number
NumberTaken(db, quote_number, except) ==
  \E n \in 1..Len(db) : n # except /\ db[n].quote_number = quote_number

\* faulty variant: the lookup does not ask for status='draft'
ExistingDraftAnyStatus(db, quote_no, user) ==
  LET found == {n \in 1..Len(db) : /\ db[n].quote_number = quote_no
                                   /\ db[n].created_by = user}
  IN IF quote_no # <<>> /\ found # {} THEN SetMax(found) ELSE 0

\* Quotation.objects.filter(quote_number=..., status='draft',
\* created_by=request.user).first(): the id, 0 for None
ExistingDraft(db, quote_no, user) ==
  LET found == {n \in 1..Len(db) : /\ db[n].quote_number = quote_no
                                   /\ db[n].status = "draft"
                                   /\ db[n].created_by = user}
  IN IF quote_no # <<>> /\ found # {} THEN SetMax(found) ELSE 0

\* generate_quotation, from fixtures_for_db to the stored record: the
\* store, the quote_data it leaves and whether the write went through
GenerateStore(db, qd, fixtures_list, user) ==
  LET fixtures_for_db == [n \in 1..Len(fixtures_list) |-> Stored(fixtures_list[n])]
      existing_draft == ExistingDraft(db, qd.quote_no, user)
      base_quote_no == BaseQuoteNo(qd.quote_no)
      existing_quotations == {n \in 1..Len(db) :
                                /\ StartsWith(db[n].quote_number, base_quote_no)
                                /\ db[n].created_by = user
                                /\ db[n].status # "draft"}
      latest_quotation == SetMax(existing_quotations)
      new_revision == IF existing_draft # 0 THEN db[existing_draft].revision
                      ELSE IF existing_quotations # {}
                      THEN increment_revision(db[latest_quotation].revision)
                      ELSE RevA
      quote_no == IF existing_draft = 0 /\ existing_quotations # {}
                  THEN RegeneratedNumber(base_quote_no, new_revision)
                  ELSE qd.quote_no
      new_qd == [qd EXCEPT !.quote_no = quote_no, !.revision = new_revision]
  IN IF existing_draft # 0
     THEN [ok |-> TRUE, quote_data |-> new_qd, id |-> existing_draft,
           quotations |-> [db EXCEPT ![existing_draft] =
                             [@ EXCEPT !.revision = new_revision,
                                       !.fixtures_data = fixtures_for_db,
                                       !.status = "generated"]]]
     ELSE IF NumberTaken(db, quote_no, 0)
     THEN [ok |-> FALSE, quote_data |-> new_qd, id |-> 0, quotations |-> db]
     ELSE [ok |-> TRUE, quote_data |-> new_qd, id |-> Len(db) + 1,
           quotations |-> Append(db, [quote_number |-> quote_no,
                                      revision |-> new_revision,
                                      status |-> "generated",
                                      fixtures_data |-> fixtures_for_db,
                                      created_by |-> user])]

\* save_quotation_draft: the images written for a draft, one per fixture
\* that came with a file
UploadedImages(id, fixtures_list) ==
  {[quotation |-> id, fixture_index |-> n - 1] :
     n \in {m \in 1..Len(fixtures_list) : fixtures_list[m].image # "none"}}

\* save_quotation_draft: the fixture entries it stores
DraftFixtures(fixtures_list) ==
  [n \in 1..Len(fixtures_list) |->
     [fixtures_list[n] EXCEPT !.image = "none",
                              !.has_image = fixtures_list[n].image # "none"]]

\* f"DRAFT_{request.user.id}_{timezone.now().strftime(...)}"; the time of
\* the request is told by the number of records stored before it
DraftNumber(db, user) == <<"DRAFT", "_", user, "_">> \o Str(Len(db) + 1)

save_quotation_draft(db, images, quote_no, revision, fixtures_list, user) ==
  LET existing_draft == ExistingDraft(db, quote_no, user)
      quote_number == IF quote_no # <<>> THEN quote_no ELSE DraftNumber(db, user)
  IN IF existing_draft # 0
     THEN [ok |-> TRUE,
           quotations |-> [db EXCEPT ![existing_draft] =
                             [@ EXCEPT !.revision = revision,
                                       !.fixtures_data = DraftFixtures(fixtures_list)]],
           draft_images |-> {i \in images : i.quotation # existing_draft}
                              \cup UploadedImages(existing_draft, fixtures_list)]
     ELSE IF NumberTaken(db, quote_number, 0)
     THEN [ok |-> FALSE, quotations |-> db, draft_images |-> images]
     ELSE [ok |-> TRUE,
           quotations |-> Append(db, [quote_number |-> quote_number,
                                      revision |-> revision,
                                      status |-> "draft",
                                      fixtures_data |-> DraftFixtures(fixtures_list),
                                      created_by |-> user]),
           draft_images |-> images \cup UploadedImages(Len(db) + 1, fixtures_list)]

\* quotation_edit: the fixture entries it stores
EditFixtures(fixtures_list) ==
  [n \in 1..Len(fixtures_list) |->
     [fixtures_list[n] EXCEPT !.image = "none", !.has_image = FALSE]]

quotation_edit(db, quotation_id, quote_no, revision, fixtures_list) ==
  IF NumberTaken(db, quote_no, quotation_id) THEN db
  ELSE [db EXCEPT ![quotation_id] =
          [@ EXCEPT !.quote_number = quote_no,
                    !.revision = revision,
                    !.fixtures_data = EditFixtures(fixtures_list)]]

\* request.session['download_file'] = {...}
DownloadFile(qd, quotation_id) ==
  {[quote_no |-> qd.quote_no, quotation_id |-> quotation_id]}

\* the id of the record generate_quotation wrote
QuotationId(db, quote_no) ==
  IF \E n \in 1..Len(db) : db[n].quote_number = quote_no
  THEN CHOOSE n \in 1..Len(db) : db[n].quote_number = quote_no
  ELSE 0

\* the users, numbers, revisions and fixture lists the requests carry
Users == {"u1", "u2"}
RequestUser == "u1"
QuoteNos == {<<>>, <<"KEC011">>, <<"KEC011", "7">>}
Revisions == {RevA, <<"Rev", " ", "Z">>}
FixtureLists ==
  { <<>>,
    <<Fx(<<"Jig">>, <<"A">>, <<"1">>, <<"100">>, <<"One Hundred">>, <<>>, "none"),
      Fx(<<"Clamp">>, <<>>, <<"2">>, <<"200">>, <<"Two Hundred">>, <<"steel">>, "ok")>> }

\* a store holding the requesting user's draft of the submitted quote
\* number, saved with an image for its first fixture
DraftStore ==
  save_quotation_draft(<<>>, {}, QuoteData(<<>>).quote_no, RevA,
                       <<Fx(<<"Clamp">>, <<>>, <<"2">>, <<"200">>, <<"Two Hundred">>,
                            <<"steel">>, "ok")>>, RequestUser)

(***************************************************************************)
(* Invoice numbers and inquiry Create IDs.  Their texts are sequences of   *)
(* characters.                                                             *)
(***************************************************************************)
DigitChars == <<"0", "1", "2", "3", "4", "5", "6", "7", "8", "9">>

IsDigitChar(c) == \E d \in 1..Len(DigitChars) : DigitChars[d] = c

DigitValue(c) == (CHOOSE d \in 1..Len(DigitChars) : DigitChars[d] = c) - 1

\* Python: str(n), n >= 0
RECURSIVE Decimal(_)
Decimal(n) ==
  IF n < 10 THEN <<DigitChars[n + 1]>>
  ELSE Decimal(n \div 10) \o <<DigitChars[(n % 10) + 1]>>

\* Python: f"{n:03d}" for width 3
RECURSIVE ZeroPad(_, _)
ZeroPad(s, width) == IF Len(s) < width THEN ZeroPad(<<"0">> \o s, width) ELSE s

\* Python: int(s) goes through for a non-empty text of digits
IsInt(s) == s # <<>> /\ \A n \in 1..Len(s) : IsDigitChar(s[n])

RECURSIVE IntOf(_)
IntOf(s) ==
  IF Len(s) = 1 THEN DigitValue(s[1])
  ELSE 10 * IntOf(SubSeq(s, 1, Len(s) - 1)) + DigitValue(s[Len(s)])

\* the order of characters in the database's comparison of texts:
\* "/" before the digits, the digits before the letters
CharRank(c) ==
  IF c = "/" THEN 0 ELSE IF IsDigitChar(c) THEN DigitValue(c) + 1 ELSE 11

\* a < b as texts
RECURSIVE TextLess(_, _)
TextLess(a, b) ==
  IF b = <<>> THEN FALSE
  ELSE IF a = <<>> THEN TRUE
  ELSE IF Head(a) # Head(b) THEN CharRank(Head(a)) < CharRank(Head(b))
  ELSE TextLess(Tail(a), Tail(b))

EndsWith(s, k) ==
  Len(k) <= Len(s) /\ SubSeq(s, Len(s) - Len(k) + 1, Len(s)) = k

\* Python: s.split('/')
RECURSIVE SplitSlash(_)
SplitSlash(s) ==
  IF \A n \in 1..Len(s) : s[n] # "/" THEN <<s>>
  ELSE LET n == CHOOSE m \in 1..Len(s) : s[m] = "/" /\ \A k \in 1..(m - 1) : s[k] # "/"
       IN <<SubSeq(s, 1, n - 1)>> \o SplitSlash(SubSeq(s, n + 1, Len(s)))

\* str(year)[-2:] of the fiscal year's first and second calendar year
fiscal_year(now) ==
  LET fiscal_start_year == IF now.month >= 4 THEN now.year ELSE now.year - 1
      two(y) == ZeroPad(Decimal(y % 100), 2)
  IN two(fiscal_start_year) \o two(fiscal_start_year + 1)

\* f"KEC/{sequence:03d}/{fiscal_year}"
InvoiceNumber(sequence, fy) ==
  <<"K", "E", "C", "/">> \o ZeroPad(Decimal(sequence), 3) \o <<"/">> \o fy

\* generate_invoice_number up to the recheck loop: the sequence after the
\* latest invoice of the fiscal year, latest in the order of the texts
FirstSequence(stored, fy) ==
  LET matching == {i \in stored : /\ StartsWith(i, <<"K", "E", "C", "/">>)
                                  /\ EndsWith(i, <<"/">> \o fy)}
      latest_invoice == CHOOSE i \in matching : \A j \in matching : ~TextLess(i, j)
      parts == SplitSlash(latest_invoice)
  IN IF matching = {} THEN 1
     ELSE IF Len(parts) = 3 /\ parts[1] = <<"K", "E", "C">> /\ parts[3] = fy
             /\ IsInt(parts[2])
     THEN IntOf(parts[2]) + 1
     ELSE 1

\* faulty variant: the recheck also sees the numbers handed to calls that
\* have not stored yet
NumberExistsOrHanded(stored, others, invoice_number) ==
  \/ invoice_number \in stored
  \/ \E c \in DOMAIN others : others[c].pc = "handed" /\ others[c].number = invoice_number

\* Invoice.objects.filter(invoice_number=invoice_number).exists()
NumberExists(stored, others, invoice_number) == invoice_number \in stored

\* the two Invoice.save calls that may run at the same time
Callers == {"a", "b"}

IdleCall == [pc |-> "idle", sequence |-> 0, number |-> <<>>]

\* the sequence numbers of the invoices stored beforehand
StoredSequences == {1, 5, 999, 1000, 1002}

Dates == {[year |-> 2025, month |-> 3], [year |-> 2025, month |-> 4],
          [year |-> 2026, month |-> 1]}

(***************************************************************************)
(* InquiryHandler.generate_create_id                                       *)
(***************************************************************************)
\* now.strftime('%b').upper(), by month
MonthNames ==
  << <<"J", "A", "N">>, <<"F", "E", "B">>, <<"M", "A", "R">>, <<"A", "P", "R">>,
     <<"M", "A", "Y">>, <<"J", "U", "N">>, <<"J", "U", "L">>, <<"A", "U", "G">>,
     <<"S", "E", "P">>, <<"O", "C", "T">>, <<"N", "O", "V">>, <<"D", "E", "C">> >>

\* now.strftime('%b').upper()[:2]
MonthAbbr(month) == SubSeq(MonthNames[month], 1, 2)

generate_create_id(stored, now) ==
  LET prefix == <<"K", "E", "C">>
      month_year == MonthAbbr(now.month) \o Decimal(now.year)
      existing_ids == {stored[n].create_id : n \in {m \in 1..Len(stored) :
                         /\ StartsWith(stored[m].create_id, prefix)
                         /\ EndsWith(stored[m].create_id, month_year)}}
      serial_part(id) == SubSeq(id, 4, Len(id) - 6)
      serial_numbers == {IntOf(serial_part(id)) :
                           id \in {i \in existing_ids : IsInt(serial_part(i))}}
      next_serial == IF serial_numbers = {} THEN 1 ELSE SetMax(serial_numbers) + 1
  IN prefix \o ZeroPad(Decimal(next_serial), 3) \o month_year

\* the months (of one year) in which inquiries are created
FirstMonths == 1..12

NoLedger ==
  /\ today = [year |-> 2025, month |-> 4]
  /\ invoices = {}
  /\ calls = [c \in Callers |-> IdleCall]
  /\ inquiries = <<>>
  /\ sr_calls = 0
  /\ response = "none"

\* a file an earlier request of the session left behind
PreviousFile == DownloadFile([quote_no |-> <<"KEC010">>], 1)

EmptyDoc == [paras |-> <<>>, tables |-> <<>>, header |-> <<>>, footer |-> <<>>]

\* the template each view loads
ViewLayouts(view) ==
  CASE view = "generate" -> Layouts
    [] view = "download" -> {HeaderImage}
    [] OTHER -> {HeaderBasic}

Init ==
  /\ path \in {"generate", "download", "app"}
  /\ pc = "build"
  /\ \E layout \in ViewLayouts(path) : doc = Template(layout)
  /\ doc0 = doc
  /\ replacements = <<>>
  /\ \E fx \in SeqsUpTo(FixturePool, MaxFixtures) :
       fixtures = IF path = "download" THEN [n \in 1..Len(fx) |-> Stored(fx[n])] ELSE fx
  /\ quote_data = QuoteData(IF path = "generate" THEN <<>> ELSE <<"Ms. Rao">>)
  /\ todo = <<>>
  /\ idx = 0
  /\ insert_position = 0
  /\ srFinished = FALSE
  /\ tableTouched = FALSE
  /\ fillFailed = {}
  /\ \E held \in BOOLEAN :
       /\ held => path = "generate"
       /\ quotations = IF held THEN DraftStore.quotations ELSE <<>>
       /\ draft_images = IF held THEN DraftStore.draft_images ELSE {}
       /\ session_file = IF held THEN PreviousFile ELSE {}
  /\ NoLedger

InitSR ==
  /\ path = "generic"
  /\ pc = "sr_start"
  /\ \E p \in ParaPool : doc = GenericDoc(p)
  /\ doc0 = doc
  /\ replacements \in GenericMaps
  /\ fixtures = <<>>
  /\ quote_data = QuoteData(<<>>)
  /\ todo = <<>>
  /\ idx = 0
  /\ insert_position = 0
  /\ srFinished = FALSE
  /\ tableTouched = FALSE
  /\ fillFailed = {}
  /\ quotations = <<>>
  /\ draft_images = {}
  /\ session_file = {}
  /\ NoLedger

InitImg ==
  /\ path = "generic"
  /\ pc = "sr_start"
  /\ \E p \in {q \in ParaPool : Len(q) <= 1} : \E layout \in ImageLayouts :
       doc = ImageDoc(p, layout)
  /\ doc0 = doc
  /\ replacements \in GenericMaps
  /\ fixtures = <<>>
  /\ quote_data = QuoteData(<<>>)
  /\ todo = <<>>
  /\ idx = 0
  /\ insert_position = 0
  /\ srFinished = FALSE
  /\ tableTouched = FALSE
  /\ fillFailed = {}
  /\ quotations = <<>>
  /\ draft_images = {}
  /\ session_file = {}
  /\ NoLedger

\* table population and row growth on their own, over tables of one to
\* five rows whose header may lack one role
InitFill ==
  /\ path = "fill"
  /\ pc = "populate"
  /\ \E absent \in Roles \cup {"none"} : \E nrows \in {1, 2, 3, 5} :
       doc = FillDoc(absent, nrows)
  /\ doc0 = doc
  /\ replacements = <<>>
  /\ fixtures \in SeqsUpTo(FillFixturePool, MaxFixtures)
  /\ quote_data = QuoteData(<<>>)
  /\ todo = <<>>
  /\ idx = 0
  /\ insert_position = 0
  /\ srFinished = TRUE
  /\ tableTouched = FALSE
  /\ fillFailed = {}
  /\ quotations = <<>>
  /\ draft_images = {}
  /\ session_file = {}
  /\ NoLedger

(***************************************************************************)
(* The views: building the replacements                                    *)
(***************************************************************************)
\* dashboard generate_quotation: pad the fixtures, write the record, load the
\* template (Document(template_path) may raise), build the replacements
GenerateBuild ==
  /\ path = "generate" /\ pc = "build"
  /\ \E template_loaded \in BOOLEAN :
       LET padded == PadFixtures(fixtures)
           res == GenerateStore(quotations, quote_data, padded, RequestUser)
           goes_on == res.ok /\ template_loaded
       IN /\ fixtures' = padded
          /\ quotations' = res.quotations
          /\ quote_data' = res.quote_data
          /\ replacements' = IF goes_on THEN GenerateReplacements(res.quote_data, padded)
                             ELSE replacements
          /\ pc' = IF goes_on THEN "sr_start" ELSE "error"
  /\ UNCHANGED <<today, invoices, calls, inquiries, draft_images, session_file, response, sr_calls, path, doc, doc0, todo, idx, insert_position,
                 srFinished, tableTouched, fillFailed>>

\* dashboard quotation_download: build the replacements from the stored record
DownloadBuild ==
  /\ path = "download" /\ pc = "build"
  /\ replacements' = DownloadReplacements(quote_data, fixtures)
  /\ pc' = "sr_start"
  /\ UNCHANGED <<today, invoices, calls, inquiries, quotations, draft_images, session_file,
                 response, sr_calls, path, doc, doc0, fixtures, quote_data, todo, idx, insert_position,
                 srFinished, tableTouched, fillFailed>>

\* quotation app generate_quotation: build the replacements, load the template
AppBuild ==
  /\ path = "app" /\ pc = "build"
  /\ replacements' = AppReplacements(quote_data, fixtures)
  /\ idx' = 2
  /\ pc' = IF Len(fixtures) > 2 /\ Len(doc.tables) > 1 THEN "app_addrows"
           ELSE "sr_start"
  /\ UNCHANGED <<today, invoices, calls, inquiries, quotations, draft_images, session_file,
                 response, sr_calls, path, doc, doc0, fixtures, quote_data, todo, insert_position,
                 srFinished, tableTouched, fillFailed>>

\* table.add_row(): one empty cell per column
EmptyRow(table) == [c \in 1..Len(table[1]) |-> << <<>> >>]

AppFixtureWrites(fixture, serial) ==
  << TextWrite(0, Str(serial)),
     TextWrite(1, fixture.name \o <<" ">> \o fixture.desc
                  \o <<"\n", "(as per annexure)", "\n", "HSN Code:", " ">>
                  \o fixture.hsn),
     TextWrite(2, fixture.qty),
     TextWrite(3, fixture.price),
     TextWrite(4, fixture.unit),
     TextWrite(5, fixture.total) >>

\* quotation app add_fixture_rows_to_table: one iteration of its loop
AppAddFixtureRow ==
  /\ path = "app" /\ pc = "app_addrows" /\ idx < Len(fixtures)
  /\ LET table == doc.tables[2]
         fixture == fixtures[idx + 1]
         cells == EmptyRow(table)
         data == ApplyWrites(cells, AppFixtureWrites(fixture, idx + 1))
         words == ApplyWrites(cells, [c \in 1..Len(cells) |->
                                        TextWrite(c - 1, WordsText(fixture))])
     IN IF Len(cells) < 6 \/ ~data.ok \/ ~words.ok
        THEN /\ pc' = "error"
             /\ UNCHANGED <<doc, idx>>
        ELSE /\ doc' = [doc EXCEPT !.tables[2] = table \o <<data.cells, words.cells>>]
             /\ idx' = idx + 1
             /\ pc' = IF idx + 1 < Len(fixtures) THEN "app_addrows" ELSE "sr_start"
  /\ tableTouched' = TRUE
  /\ UNCHANGED <<today, invoices, calls, inquiries, quotations, draft_images, session_file,
                 response, sr_calls, path, doc0, replacements, fixtures, quote_data, todo,
                 insert_position, srFinished, fillFailed>>

(***************************************************************************)
(* seek_and_replace, one visited place per step                            *)
(***************************************************************************)
StartSR ==
  /\ pc = "sr_start"
  /\ doc0' = doc
  /\ todo' = SRTodo(doc)
  /\ sr_calls' = sr_calls + 1
  /\ pc' = "sr"
  /\ UNCHANGED <<response, today, invoices, calls, inquiries, quotations, draft_images, session_file,
                 path, doc, replacements, fixtures, quote_data, idx, insert_position,
                 srFinished, tableTouched, fillFailed>>

\* run.text = t is refused for a text the document library cannot store:
\* some paragraph was rewritten with such a text
Refused(old_paras, new_paras) ==
  \E n \in 1..Len(old_paras) :
    new_paras[n] # old_paras[n] /\ ~XmlOk(ParText(new_paras[n]))

SRStep(raises, newdoc) ==
  /\ IF raises
     THEN /\ pc' = "error"
          /\ UNCHANGED <<doc, todo>>
     ELSE /\ doc' = newdoc
          /\ todo' = Tail(todo)
          /\ pc' = "sr"
  /\ UNCHANGED <<today, invoices, calls, inquiries, quotations, draft_images, session_file,
                 response, sr_calls, path, doc0, replacements, fixtures, quote_data, idx, insert_position,
                 srFinished, tableTouched, fillFailed>>

\* for para in doc.paragraphs
SRParagraphs ==
  /\ pc = "sr" /\ todo # <<>> /\ Head(todo)[1] = "paragraphs"
  /\ LET new == ReplaceInParagraphs(doc.paras, replacements)
     IN SRStep(Refused(doc.paras, new), [doc EXCEPT !.paras = new])

\* for table_idx, table in enumerate(doc.tables); only the dashboard version
\* of seek_and_replace knows the pricing table
SRTable ==
  /\ pc = "sr" /\ todo # <<>> /\ Head(todo)[1] = "table"
  /\ LET t == Head(todo)[2]
         is_pricing_table == path # "app" /\ t - 1 = 1
         table == doc.tables[t]
         new == ReplaceInTable(table, replacements, is_pricing_table)
     IN SRStep(\E r \in 1..Len(table) : \E c \in 1..Len(table[r]) :
                 Refused(table[r][c], new[r][c]),
               [doc EXCEPT !.tables[t] = new])

\* for section in doc.sections: header and footer paragraphs
SRSections ==
  /\ pc = "sr" /\ todo # <<>> /\ Head(todo)[1] = "sections"
  /\ LET new_header == ReplaceInParagraphs(doc.header, replacements)
         new_footer == ReplaceInParagraphs(doc.footer, replacements)
     IN SRStep(Refused(doc.header, new_header) \/ Refused(doc.footer, new_footer),
               [doc EXCEPT !.header = new_header, !.footer = new_footer])

\* return doc
SRFinish ==
  /\ pc = "sr" /\ todo = <<>>
  /\ srFinished' = TRUE
  /\ pc' = "sr_end"
  /\ UNCHANGED <<today, invoices, calls, inquiries, quotations, draft_images, session_file,
                 response, sr_calls, path, doc, doc0, replacements, fixtures, quote_data, todo, idx,
                 insert_position, tableTouched, fillFailed>>

\* faulty variant: the file is kept in the session before the table is filled
SRReturnStoring ==
  /\ pc = "sr_end"
  /\ pc' = CASE path = "generate" -> "images"
             [] path = "download" -> IF Len(doc.tables) > 1 THEN "populate" ELSE "save"
             [] path = "app" -> "save"
             [] OTHER -> "done"
  /\ UNCHANGED <<today, invoices, calls, inquiries, quotations, draft_images,
                 response, sr_calls, path, doc, doc0, replacements, fixtures, quote_data, todo, idx,
                 insert_position, srFinished, tableTouched, fillFailed>>
  /\ session_file' = IF path = "generate"
                     THEN DownloadFile(quote_data, QuotationId(quotations, quote_data.quote_no))
                     ELSE session_file

\* the caller goes on after seek_and_replace
SRReturn ==
  /\ pc = "sr_end"
  /\ pc' = CASE path = "generate" -> "images"
             [] path = "download" -> IF Len(doc.tables) > 1 THEN "populate" ELSE "save"
             [] path = "app" -> "save"
             [] OTHER -> "done"
  /\ UNCHANGED <<today, invoices, calls, inquiries, quotations, draft_images, session_file,
                 response, sr_calls, path, doc, doc0, replacements, fixtures, quote_data, todo, idx,
                 insert_position, srFinished, tableTouched, fillFailed>>

(***************************************************************************)
(* The dashboard views: images, table population, row growth, save         *)
(***************************************************************************)
InsertImages ==
  /\ path = "generate" /\ pc = "images"
  /\ doc' = insert_images_in_inclusion_section(doc, fixtures)
  /\ pc' = IF Len(doc.tables) > 1 THEN "populate" ELSE "save"
  /\ UNCHANGED <<today, invoices, calls, inquiries, quotations, draft_images, session_file,
                 response, sr_calls, path, doc0, replacements, fixtures, quote_data, todo, idx,
                 insert_position, srFinished, tableTouched, fillFailed>>

\* the fixture list the view hands to table population
FixturesData == IF path = "download" THEN FixturesForDoc(fixtures) ELSE fixtures

\* faulty variant: the template is taken to hold one fixture only
OverflowIdxsFromOne(fixtures_data) == 1..(Len(fixtures_data) - 1)

\* add_fixture_rows_to_table: the idx values its loop runs through,
\* none when there are at most two fixtures
OverflowIdxs(fixtures_data) ==
  IF Len(fixtures_data) <= 2 THEN {} ELSE 2..(Len(fixtures_data) - 1)

\* faulty variant: rows are cloned without looking for a template row
AfterPopulateAlways(table) ==
  LET todo_idx == OverflowIdxs(FixturesData)
  IN /\ pc' = IF todo_idx # {} THEN "addrows" ELSE "save"
     /\ idx' = IF todo_idx # {} THEN SetMin(todo_idx) ELSE idx
     /\ insert_position' = Len(table)

\* where the view goes once populate_pricing_table_with_fixtures returned:
\* add_fixture_rows_to_table returns at once for at most two fixtures and
\* for a table without a row below the header
AfterPopulate(table) ==
  LET todo_idx == OverflowIdxs(FixturesData)
  IN /\ pc' = IF todo_idx # {} /\ Len(table) > 1 THEN "addrows" ELSE "save"
     /\ idx' = IF todo_idx # {} THEN SetMin(todo_idx) ELSE idx
     /\ insert_position' = Len(table)

\* populate_pricing_table_with_fixtures, STEP 1 to STEP 3
PopulateFill ==
  /\ pc = "populate"
  /\ LET table == doc.tables[2]
         res == PopulateFixtureRows(table, FixturesData)
     IN IF FixturesData = <<>>
        THEN /\ AfterPopulate(table)
             /\ UNCHANGED <<doc, tableTouched>>
        ELSE /\ tableTouched' = TRUE
             /\ IF res.ok
                THEN /\ doc' = [doc EXCEPT !.tables[2] = res.table]
                     /\ pc' = "words"
                ELSE /\ pc' = "error"
                     /\ UNCHANGED doc
             /\ UNCHANGED <<idx, insert_position>>
  /\ UNCHANGED <<today, invoices, calls, inquiries, quotations, draft_images, session_file,
                 response, sr_calls, path, doc0, replacements, fixtures, quote_data, todo, srFinished,
                 fillFailed>>

\* populate_pricing_table_with_fixtures, STEP 4
PopulateWords ==
  /\ pc = "words"
  /\ LET res == PopulateWordsRows(doc.tables[2], FixturesData)
     IN IF res.ok
        THEN /\ doc' = [doc EXCEPT !.tables[2] = res.table]
             /\ AfterPopulate(res.table)
        ELSE /\ pc' = "error"
             /\ UNCHANGED <<doc, idx, insert_position>>
  /\ UNCHANGED <<today, invoices, calls, inquiries, quotations, draft_images, session_file,
                 response, sr_calls, path, doc0, replacements, fixtures, quote_data, todo, srFinished,
                 tableTouched, fillFailed>>

\* the template's first words row exists (template_words_row is not None)
HasWordsRow(d) == Len(d.tables[2]) > 2

\* faulty variant: the words row is never cloned
AddRowPairNoWords(table, fixture, serial, position, has_words_row) ==
  LET cp == ColumnPositions(table)
      t1 == CloneRowAtPosition(table, table[2], position)
      cells == ClearAllCells(t1[position + 1])
      res == ApplyWrites(cells, DataWrites(cp, cells, fixture, serial))
  IN [table |-> [t1 EXCEPT ![position + 1] = res.cells],
      position |-> position + 1, failed |-> ~res.ok]

\* dashboard add_fixture_rows_to_table: one iteration of its loop
AddRowPair(table, fixture, serial, position, has_words_row) ==
  LET cp == ColumnPositions(table)
      t1 == CloneRowAtPosition(table, table[2], position)
      cells == ClearAllCells(t1[position + 1])
      res == ApplyWrites(cells, DataWrites(cp, cells, fixture, serial))
      t2 == [t1 EXCEPT ![position + 1] = res.cells]
      t3 == CloneRowAtPosition(t2, table[3], position + 1)
      words_cells == ClearAllCells(t3[position + 2])
      wres == ApplyWrites(words_cells, WordsWrites(cp, words_cells, fixture))
  IN IF ~res.ok
     THEN [table |-> t2, position |-> position + 1, failed |-> TRUE]
     ELSE IF has_words_row
     THEN [table |-> [t3 EXCEPT ![position + 2] = wres.cells],
           position |-> position + 2, failed |-> FALSE]
     ELSE [table |-> t2, position |-> position + 1, failed |-> FALSE]

AddFixtureRow ==
  /\ pc = "addrows" /\ idx \in OverflowIdxs(FixturesData)
  /\ LET res == AddRowPair(doc.tables[2], FixturesData[idx + 1], idx + 1,
                           insert_position, HasWordsRow(doc0))
     IN /\ doc' = [doc EXCEPT !.tables[2] = res.table]
        /\ insert_position' = res.position
        /\ fillFailed' = IF res.failed THEN fillFailed \cup {idx} ELSE fillFailed
  /\ idx' = idx + 1
  /\ pc' = IF idx + 1 \in OverflowIdxs(FixturesData) THEN "addrows" ELSE "save"
  /\ tableTouched' = TRUE
  /\ UNCHANGED <<today, invoices, calls, inquiries, quotations, draft_images, session_file,
                 response, sr_calls, path, doc0, replacements, fixtures, quote_data, todo, srFinished>>

\* doc.save(buffer); generate_quotation then keeps the file in the session
Save ==
  /\ pc = "save"
  /\ pc' = "done"
  /\ session_file' = IF path = "generate"
                     THEN DownloadFile(quote_data, QuotationId(quotations, quote_data.quote_no))
                     ELSE session_file
  /\ UNCHANGED <<today, invoices, calls, inquiries, quotations, draft_images,
                 response, sr_calls, path, doc, doc0, replacements, fixtures, quote_data, todo, idx,
                 insert_position, srFinished, tableTouched, fillFailed>>

Next ==
  \/ GenerateBuild
  \/ DownloadBuild
  \/ AppBuild
  \/ AppAddFixtureRow
  \/ StartSR
  \/ SRParagraphs
  \/ SRTable
  \/ SRSections
  \/ SRFinish
  \/ SRReturn
  \/ InsertImages
  \/ PopulateFill
  \/ PopulateWords
  \/ AddFixtureRow
  \/ Save

Spec == Init /\ [][Next]_vars

NextSR ==
  \/ StartSR
  \/ SRParagraphs
  \/ SRTable
  \/ SRSections
  \/ SRFinish
  \/ SRReturn

SpecSR == InitSR /\ [][NextSR]_vars

SpecImg == InitImg /\ [][NextSR]_vars

(***************************************************************************)
(* seek_and_replace called again on the document it returned, with the     *)
(* same replacements                                                       *)
(***************************************************************************)
InitSR2 ==
  /\ path = "twice"
  /\ pc = "sr_start"
  /\ \E p \in ParaPool : doc = GenericDoc(p)
  /\ doc0 = doc
  /\ replacements \in GenericMaps
  /\ fixtures = <<>>
  /\ quote_data = QuoteData(<<>>)
  /\ todo = <<>>
  /\ idx = 0
  /\ insert_position = 0
  /\ srFinished = FALSE
  /\ tableTouched = FALSE
  /\ fillFailed = {}
  /\ quotations = <<>>
  /\ draft_images = {}
  /\ session_file = {}
  /\ NoLedger

\* doc = seek_and_replace(doc, replacements), once more
SRAgain ==
  /\ path = "twice" /\ pc = "done"
  /\ sr_calls < MaxCalls
  /\ pc' = "sr_start"
  /\ UNCHANGED <<today, invoices, calls, inquiries, quotations, draft_images, session_file,
                 response, sr_calls, path, doc, doc0, replacements, fixtures, quote_data, todo, idx,
                 insert_position, srFinished, tableTouched, fillFailed>>

NextSR2 ==
  \/ NextSR
  \/ SRAgain

SpecSR2 == InitSR2 /\ [][NextSR2]_vars

(***************************************************************************)
(* Invoice.save, two calls at a time                                       *)
(***************************************************************************)
InitInv ==
  /\ path = "invoice"
  /\ sr_calls = 0
  /\ response = "none"
  /\ pc = "idle"
  /\ doc = EmptyDoc
  /\ doc0 = doc
  /\ replacements = <<>>
  /\ fixtures = <<>>
  /\ quote_data = QuoteData(<<>>)
  /\ todo = <<>>
  /\ idx = 0
  /\ insert_position = 0
  /\ srFinished = FALSE
  /\ tableTouched = FALSE
  /\ fillFailed = {}
  /\ quotations = <<>>
  /\ draft_images = {}
  /\ session_file = {}
  /\ today \in Dates
  /\ \E seqs \in SUBSET StoredSequences : \E other \in BOOLEAN :
       invoices = {InvoiceNumber(n, fiscal_year(today)) : n \in seqs}
                  \cup (IF other THEN {InvoiceNumber(7, <<"2", "3", "2", "4">>)} ELSE {})
  /\ calls = [c \in Callers |-> IdleCall]
  /\ inquiries = <<>>

InvUnchanged ==
  UNCHANGED <<today, inquiries, quotations, draft_images, session_file, response, sr_calls, path, pc, doc,
              doc0, replacements, fixtures, quote_data, todo, idx, insert_position,
              srFinished, tableTouched, fillFailed>>

\* generate_invoice_number: the query for the latest invoice
LatestInvoice(c) ==
  /\ path = "invoice" /\ calls[c].pc = "idle"
  /\ calls' = [calls EXCEPT ![c] =
                 [pc |-> "recheck",
                  sequence |-> FirstSequence(invoices, fiscal_year(today)),
                  number |-> <<>>]]
  /\ UNCHANGED invoices
  /\ InvUnchanged

\* generate_invoice_number: one turn of the uniqueness loop, or the return
Recheck(c) ==
  /\ path = "invoice" /\ calls[c].pc = "recheck"
  /\ LET invoice_number == InvoiceNumber(calls[c].sequence, fiscal_year(today))
         others == [o \in Callers \ {c} |-> calls[o]]
     IN calls' = [calls EXCEPT ![c] =
                    IF NumberExists(invoices, others, invoice_number)
                    THEN [@ EXCEPT !.sequence = @ + 1]
                    ELSE [@ EXCEPT !.pc = "handed", !.number = invoice_number]]
  /\ UNCHANGED invoices
  /\ InvUnchanged

\* Invoice.save: super().save(); the number is unique in the table
StoreInvoice(c) ==
  /\ path = "invoice" /\ calls[c].pc = "handed"
  /\ IF calls[c].number \in invoices
     THEN /\ calls' = [calls EXCEPT ![c].pc = "failed"]
          /\ UNCHANGED invoices
     ELSE /\ calls' = [calls EXCEPT ![c].pc = "stored"]
          /\ invoices' = invoices \cup {calls[c].number}
  /\ InvUnchanged

NextInv ==
  \/ \E c \in Callers : LatestInvoice(c)
  \/ \E c \in Callers : Recheck(c)
  \/ \E c \in Callers : StoreInvoice(c)

SpecInv == InitInv /\ [][NextInv]_vars

(***************************************************************************)
(* InquiryHandler.save of new inquiries, month after month                 *)
(***************************************************************************)
InitInq ==
  /\ path = "inquiry"
  /\ sr_calls = 0
  /\ response = "none"
  /\ pc = "idle"
  /\ doc = EmptyDoc
  /\ doc0 = doc
  /\ replacements = <<>>
  /\ fixtures = <<>>
  /\ quote_data = QuoteData(<<>>)
  /\ todo = <<>>
  /\ idx = 0
  /\ insert_position = 0
  /\ srFinished = FALSE
  /\ tableTouched = FALSE
  /\ fillFailed = {}
  /\ quotations = <<>>
  /\ draft_images = {}
  /\ session_file = {}
  /\ \E month \in FirstMonths : today = [year |-> 2025, month |-> month]
  /\ invoices = {}
  /\ calls = [c \in Callers |-> IdleCall]
  /\ inquiries = <<>>

InqUnchanged ==
  UNCHANGED <<invoices, calls, quotations, draft_images, session_file, response, sr_calls, path, pc, doc,
              doc0, replacements, fixtures, quote_data, todo, idx, insert_position,
              srFinished, tableTouched, fillFailed>>

\* InquiryHandler.save of an inquiry without Create ID
CreateInquiry ==
  /\ path = "inquiry" /\ Len(inquiries) < MaxInquiries
  /\ inquiries' = Append(inquiries, [create_id |-> generate_create_id(inquiries, today),
                                     year |-> today.year, month |-> today.month])
  /\ UNCHANGED today
  /\ InqUnchanged

\* a later month begins
MonthPasses ==
  /\ path = "inquiry"
  /\ \E month \in (today.month + 1)..12 : today' = [today EXCEPT !.month = month]
  /\ UNCHANGED inquiries
  /\ InqUnchanged

NextInq ==
  \/ CreateInquiry
  \/ MonthPasses

SpecInq == InitInq /\ [][NextInq]_vars

\* the store on its own: requests in any order; the texts they carry can
\* all be stored in a document, so document generation goes through
InitStore ==
  /\ path = "store"
  /\ pc = "idle"
  /\ doc = EmptyDoc
  /\ doc0 = doc
  /\ replacements = <<>>
  /\ fixtures = <<>>
  /\ quote_data = QuoteData(<<>>)
  /\ todo = <<>>
  /\ idx = 0
  /\ insert_position = 0
  /\ srFinished = FALSE
  /\ tableTouched = FALSE
  /\ fillFailed = {}
  /\ quotations = <<>>
  /\ draft_images = {}
  /\ session_file = {}
  /\ NoLedger

SaveDraft ==
  /\ path = "store"
  /\ \E user \in Users, quote_no \in QuoteNos, revision \in Revisions, fx \in FixtureLists :
       LET res == save_quotation_draft(quotations, draft_images, quote_no, revision,
                                       fx, user)
       IN /\ Len(res.quotations) <= MaxQuotations
          /\ quotations' = res.quotations
          /\ draft_images' = res.draft_images
  /\ UNCHANGED <<today, invoices, calls, inquiries, session_file, response, sr_calls, path, pc, doc, doc0, replacements, fixtures, quote_data,
                 todo, idx, insert_position, srFinished, tableTouched, fillFailed>>

Generate ==
  /\ path = "store"
  /\ \E user \in Users, quote_no \in QuoteNos, fx \in FixtureLists :
       LET qd == [QuoteData(<<>>) EXCEPT !.quote_no = quote_no]
           res == GenerateStore(quotations, qd, PadFixtures(fx), user)
       IN /\ Len(res.quotations) <= MaxQuotations
          /\ quotations' = res.quotations
          /\ session_file' = IF res.ok /\ user = RequestUser
                             THEN DownloadFile(res.quote_data, res.id)
                             ELSE session_file
  /\ UNCHANGED <<today, invoices, calls, inquiries, draft_images, response, sr_calls, path, pc, doc, doc0, replacements, fixtures, quote_data,
                 todo, idx, insert_position, srFinished, tableTouched, fillFailed>>

Edit ==
  /\ path = "store"
  /\ \E quotation_id \in 1..Len(quotations), quote_no \in QuoteNos,
        revision \in Revisions, fx \in FixtureLists :
       quotations' = quotation_edit(quotations, quotation_id, quote_no, revision, fx)
  /\ UNCHANGED <<today, invoices, calls, inquiries, draft_images, session_file, response, sr_calls, path, pc, doc, doc0, replacements, fixtures,
                 quote_data, todo, idx, insert_position, srFinished, tableTouched,
                 fillFailed>>

\* faulty variant: the file stays in the session
quotation_download_file_keeping ==
  /\ path = "store"
  /\ response' = IF session_file # {} THEN "file" ELSE "redirect"
  /\ UNCHANGED <<session_file, today, invoices, calls, inquiries, quotations, draft_images,
                 sr_calls, path, pc, doc, doc0, replacements, fixtures, quote_data, todo,
                 idx, insert_position, srFinished, tableTouched, fillFailed>>

\* quotation_download_file: the file kept in the session is returned and
\* deleted from the session; without one the request is redirected to the
\* management page
quotation_download_file ==
  /\ path = "store"
  /\ IF session_file # {}
     THEN /\ session_file' = {}
          /\ response' = "file"
     ELSE /\ response' = "redirect"
          /\ UNCHANGED session_file
  /\ UNCHANGED <<today, invoices, calls, inquiries, quotations, draft_images,
                 sr_calls, path, pc, doc, doc0, replacements, fixtures, quote_data, todo,
                 idx, insert_position, srFinished, tableTouched, fillFailed>>

NextStore ==
  \/ SaveDraft
  \/ Generate
  \/ Edit
  \/ quotation_download_file

SpecStore == InitStore /\ [][NextStore]_vars

\* the quote number a user generates again and again
RegeneratedQuoteData == [QuoteData(<<>>) EXCEPT !.quote_no = <<"KEC011">>]

\* the store after k generate_quotation requests of one user for one quote
\* number, each with an empty fixture list
RECURSIVE History(_)
History(k) ==
  IF k = 0 THEN <<>>
  ELSE LET earlier == History(k - 1)
       IN IF Len(earlier) < k - 1 THEN earlier
          ELSE GenerateStore(earlier, RegeneratedQuoteData, PadFixtures(<<>>),
                             RequestUser).quotations

InitRegen ==
  /\ path = "regen"
  /\ pc = "idle"
  /\ doc = EmptyDoc
  /\ doc0 = doc
  /\ replacements = <<>>
  /\ fixtures = <<>>
  /\ quote_data = RegeneratedQuoteData
  /\ todo = <<>>
  /\ idx = 0
  /\ insert_position = 0
  /\ srFinished = FALSE
  /\ tableTouched = FALSE
  /\ fillFailed = {}
  /\ \E k \in 0..MaxHistory : quotations = History(k)
  /\ draft_images = {}
  /\ session_file = {}
  /\ NoLedger

\* generate_quotation for the same quote number once more, twice in a row;
\* a write the unique quote_number refuses ends the request in the except
\* clause
Regenerate ==
  /\ path = "regen" /\ pc \in {"idle", "regenerated"}
  /\ \E fx \in FixtureLists :
       LET res == GenerateStore(quotations, RegeneratedQuoteData, PadFixtures(fx),
                                RequestUser)
       IN /\ quotations' = res.quotations
          /\ quote_data' = res.quote_data
          /\ session_file' = IF res.ok THEN DownloadFile(res.quote_data, res.id)
                             ELSE session_file
          /\ pc' = IF ~res.ok THEN "error"
                   ELSE IF pc = "idle" THEN "regenerated" ELSE "done"
  /\ UNCHANGED <<today, invoices, calls, inquiries, draft_images, response, sr_calls, path, doc, doc0,
                 replacements, fixtures, todo, idx, insert_position, srFinished,
                 tableTouched, fillFailed>>

NextRegen ==
  \/ Regenerate

SpecRegen == InitRegen /\ [][NextRegen]_vars

NextFill ==
  \/ PopulateFill
  \/ PopulateWords
  \/ AddFixtureRow
  \/ Save

SpecFill == InitFill /\ [][NextFill]_vars

(***************************************************************************)
(* Properties of seek_and_replace                                          *)
(***************************************************************************)
\* every paragraph of a document: <<kind, table, row, cell, paragraph>>
ParLocs(d) ==
  {<<"body", 0, 0, 0, n>> : n \in 1..Len(d.paras)}
  \cup {<<"header", 0, 0, 0, n>> : n \in 1..Len(d.header)}
  \cup {<<"footer", 0, 0, 0, n>> : n \in 1..Len(d.footer)}
  \cup UNION {UNION {UNION {{<<"cell", t, r, c, n>> :
                               n \in 1..Len(d.tables[t][r][c])} :
                            c \in 1..Len(d.tables[t][r])} :
                     r \in 1..Len(d.tables[t])} :
              t \in 1..Len(d.tables)}

ParAt(d, loc) ==
  CASE loc[1] = "body" -> d.paras[loc[5]]
    [] loc[1] = "header" -> d.header[loc[5]]
    [] loc[1] = "footer" -> d.footer[loc[5]]
    [] OTHER -> d.tables[loc[2]][loc[3]][loc[4]][loc[5]]

\* the two keys can cover a common piece of some text
KeysOverlap(a, b) ==
  \E d \in (1 - Len(b))..(Len(a) - 1) :
    LET common == {n \in 1..Len(a) : n - d \in 1..Len(b)}
    IN common # {} /\ \A n \in common : a[n] = b[n - d]

\* the entries whose value is not empty
Active(map) == {n \in 1..Len(map) : map[n].new # <<>>}

\* the entries with an empty value whose key no applied entry's key overlaps
Sheltered(map) ==
  {n \in 1..Len(map) :
     /\ map[n].new = <<>>
     /\ \A m \in Active(map) : ~KeysOverlap(map[n].old, map[m].old)}

\* C1: once seek_and_replace has returned, every paragraph holds at least
\* the occurrences it had of each key whose replacement value is empty and
\* whose text no applied entry's key overlaps.
C1_EmptyValueKeepsKey ==
  pc = "sr_end" =>
    \A n \in Sheltered(replacements) : \A loc \in ParLocs(doc0) :
      Occurrences(ParText(ParAt(doc, loc)), replacements[n].old)
        >= Occurrences(ParText(ParAt(doc0, loc)), replacements[n].old)

\* seek_and_replace returned after rewriting a paragraph that holds the key
\* of a sheltered empty-valued entry
C1_Witness ==
  /\ pc = "sr_end"
  /\ \E n \in Sheltered(replacements) : \E loc \in ParLocs(doc0) :
       /\ Occurrences(ParText(ParAt(doc0, loc)), replacements[n].old) > 0
       /\ ParAt(doc, loc) # ParAt(doc0, loc)

\* no key with a non-empty value occurs in the text
NoActiveKey(text, map) == \A n \in Active(map) : ~Contains(text, map[n].old)

\* C2: a paragraph whose text contains no key with a non-empty value has,
\* after seek_and_replace, the runs it had before, with the same texts.
C2_UnmatchedParagraphUntouched ==
  pc = "sr_end" =>
    \A loc \in ParLocs(doc0) :
      NoActiveKey(ParText(ParAt(doc0, loc)), replacements)
        => ParAt(doc, loc) = ParAt(doc0, loc)

\* a two-run paragraph with text in both runs was visited with a map that
\* has applied entries, none of which matches it
C2_Witness ==
  /\ pc = "sr_end"
  /\ Active(replacements) # {}
  /\ \E loc \in ParLocs(doc0) :
       LET par == ParAt(doc0, loc)
       IN /\ Len(par) = 2 /\ par[1].text # <<>> /\ par[2].text # <<>>
          /\ NoActiveKey(ParText(par), replacements)

\* the cells the dashboard seek_and_replace passes over
Passed(d, loc) ==
  /\ loc[1] = "cell" /\ loc[2] = 2
  /\ \/ loc[4] = 1
     \/ loc[4] = 4 /\ IsDigit(Strip(CellText(d.tables[2][loc[3]][1])))

\* the non-empty entries applied one after another in map order, each
\* replacing all occurrences of its key
RECURSIVE Substituted(_, _, _)
Substituted(text, map, n) ==
  IF n = 0 THEN text
  ELSE LET before == Substituted(text, map, n - 1)
       IN IF map[n].new = <<>> THEN before
          ELSE StrReplace(before, map[n].old, map[n].new)

\* C3: a visited paragraph whose text the map changes keeps its number of
\* runs, its first run holding the whole replaced text and every other run
\* being empty, highlighted or not; a paragraph without runs stays so.
C3_ChangedParagraphRewritten ==
  pc = "sr_end" =>
    \A loc \in ParLocs(doc0) :
      LET old == ParAt(doc0, loc)
          new == ParAt(doc, loc)
          replaced_text == Substituted(ParText(old), replacements, Len(replacements))
      IN /\ Len(new) = Len(old)
         /\ (replaced_text # ParText(old) /\ ~Passed(doc0, loc)) =>
              \A n \in 1..Len(new) :
                new[n].text = IF n = 1 THEN replaced_text ELSE <<>>

\* both a highlighted and a plain two-run paragraph with text in both runs
\* were rewritten, and a paragraph without runs was visited
C3_Witness ==
  /\ pc = "sr_end"
  /\ \E l1, l2, l3 \in ParLocs(doc0) :
       /\ Len(ParAt(doc0, l1)) = 2 /\ has_highlighted(ParAt(doc0, l1))
       /\ ParAt(doc0, l1)[2].text # <<>>
       /\ ParText(ParAt(doc, l1)) # ParText(ParAt(doc0, l1))
       /\ Len(ParAt(doc0, l2)) = 2 /\ ~has_highlighted(ParAt(doc0, l2))
       /\ ParAt(doc0, l2)[2].text # <<>>
       /\ ParText(ParAt(doc, l2)) # ParText(ParAt(doc0, l2))
       /\ ParAt(doc0, l3) = <<>> /\ ParAt(doc, l3) = <<>>

\* C10: while the dashboard seek_and_replace runs, and when it has returned,
\* the first column of the second table is, in every row, as it was.
C10_SerialColumnUntouched ==
  pc \in {"sr", "sr_end"} =>
    /\ Len(doc.tables[2]) = Len(doc0.tables[2])
    /\ \A r \in 1..Len(doc0.tables[2]) : doc.tables[2][r][1] = doc0.tables[2][r][1]

\* seek_and_replace returned having rewritten a cell of the second table,
\* whose first column holds an applied entry's key
C10_Witness ==
  /\ pc = "sr_end"
  /\ \E r \in 1..Len(doc0.tables[2]) :
       /\ ~NoActiveKey(CellText(doc0.tables[2][r][1]), replacements)
       /\ doc.tables[2][r][2] # doc0.tables[2][r][2]

(***************************************************************************)
(* Properties of the generation views and of the pricing table             *)
(***************************************************************************)
Dashboard == path \in {"generate", "download"}

\* population and row growth are over
Populated == Dashboard /\ pc = "save" /\ tableTouched

\* C4: in every generation view a write into the pricing table by table
\* population or row growth comes after seek_and_replace has returned.
C4_TableWritesAfterSubstitution == tableTouched => srFinished

\* C5 as stated: for more than two fixtures the populated and grown table
\* has twice as many rows as there are fixtures.
C5_TwoRowsPerFixture ==
  (Populated /\ Len(FixturesData) > 2) =>
    Len(doc.tables[2]) = 2 * Len(FixturesData)

\* C5: for more than two fixtures the populated and grown table has the
\* header row and two rows per fixture, less the words row of each overflow
\* fixture whose cloned data row could not be filled.
C5_HeaderAndTwoRowsPerFixture ==
  (Populated /\ Len(FixturesData) > 2) =>
    Len(doc.tables[2]) = 2 * Len(FixturesData) + 1 - Cardinality(fillFailed)

\* three fixtures were placed and the table has seven rows
C5_Witness ==
  /\ Populated /\ Len(FixturesData) = 3
  /\ fillFailed = {}
  /\ Len(doc0.tables[2]) = 5 /\ Len(doc.tables[2]) = 7

\* C6: for at most two fixtures the pricing table has, during and after
\* population and row growth, the number of rows it had before.
C6_NoRowsAddedUpToTwo ==
  (Dashboard /\ Len(FixturesData) <= 2 /\ pc \in {"words", "addrows", "save", "done"})
    => Len(doc.tables[2]) = Len(doc0.tables[2])

\* two fixtures were placed in the template's rows and the view is about to save
C6_Witness ==
  /\ Populated /\ Len(FixturesData) = 2
  /\ Len(doc.tables[2]) = 5

\* the text of a row's serial cell
SerialText(table, r) ==
  Strip(CellText(table[r][ColumnPositions(table)["sr"] + 1]))

\* the numeric serials of the rows below the header, top to bottom
NumericSerials(table) ==
  LET all == [n \in 1..(Len(table) - 1) |-> SerialText(table, n + 1)]
  IN SelectSeq(all, IsDigit)

\* C7: after population with at least two fixtures the numeric serials of
\* the table are, top to bottom, 1, 2, ..., count.
C7_SerialsOnceInOrder ==
  (Populated /\ Len(FixturesData) >= 2) =>
    NumericSerials(doc.tables[2]) = [k \in 1..Len(FixturesData) |-> Str(k)]

\* C8: for every overflow fixture k the grown table holds, after the rows it
\* had and after the pairs of the overflow fixtures before k, a data row
\* with serial k and right below it a row starting with "In Words: " and
\* the fixture's words.
C8_OverflowPairsAppended ==
  (Populated /\ Len(FixturesData) > 2) =>
    \A k \in 3..Len(FixturesData) :
      LET table == doc.tables[2]
          r == Len(doc0.tables[2]) + 2 * (k - 3) + 1
          desc_col == ColumnPositions(table)["description"] + 1
      IN /\ r + 1 <= Len(table)
         /\ SerialText(table, r) = Str(k)
         /\ StartsWith(CellText(table[r + 1][desc_col]), WordsText(FixturesData[k]))

IsWordsRow(row) == Contains(RowText(row), <<"in words:">>)

\* the position of row r among the rows that contain "in words:"
WordsOrdinal(table, r) == Cardinality({q \in 2..r : IsWordsRow(table[q])})

\* a words row after STEP 4 has paired it with the fixture
PairedWordsRow(table, r, fixture) ==
  LET cp == ColumnPositions(table)
  IN [c \in 1..Len(table[r]) |->
        IF c - 1 >= cp["description"] THEN TextCell(WordsText(fixture))
        ELSE IF c - 1 = cp["sr"] THEN TextCell(<<>>)
        ELSE table[r][c]]

\* C9: STEP 4 of populate_pricing_table_with_fixtures changes the i-th row
\* containing "in words:" into the words row of the i-th fixture (serial
\* cell cleared, the cells from the description column on set to
\* "In Words: " and the fixture's words) and leaves every other row, the
\* words rows beyond the number of fixtures included, as it was.
C9_WordsRowsPaired ==
  [][(pc = "words" /\ pc' # "error") =>
       /\ Len(doc'.tables[2]) = Len(doc.tables[2])
       /\ \A r \in 1..Len(doc.tables[2]) :
            LET table == doc.tables[2]
                i == WordsOrdinal(table, r)
            IN doc'.tables[2][r] =
                 IF r > 1 /\ IsWordsRow(table[r]) /\ i <= Len(FixturesData)
                 THEN PairedWordsRow(table, r, FixturesData[i])
                 ELSE table[r]]_vars

\* one fixture was placed: the first words row carries its words, the
\* second words row still has text in its serial cell
C9_Witness ==
  /\ Populated /\ Len(FixturesData) = 1
  /\ CellText(doc.tables[2][3][1]) = <<>>
  /\ CellText(doc.tables[2][3][2]) = WordsText(FixturesData[1])
  /\ IsWordsRow(doc.tables[2][5])
  /\ CellText(doc.tables[2][5][1]) # <<>>

\* C11: while the dashboard seek_and_replace runs, and when it has returned,
\* in every row of the pricing table whose serial cell holds a number the
\* cell of the column whose header contains "image" is as it was.
C11_ImageCellUntouched ==
  (pc \in {"sr", "sr_end"} /\ "image" \in DOMAIN ColumnPositions(doc0.tables[2])) =>
    \A r \in 1..Len(doc0.tables[2]) :
      LET image_col == ColumnPositions(doc0.tables[2])["image"] + 1
      IN IsDigit(Strip(CellText(doc0.tables[2][r][1])))
           => doc.tables[2][r][image_col] = doc0.tables[2][r][image_col]

\* the image cells a step of table population has just written: the cell
\* after the step, with the fixture placed in its row
ImageCellsWritten ==
  LET table == doc.tables[2]
      cp == ColumnPositions(table)
      rows == FindFixtureRows(table, Len(FixturesData), 2, <<>>)
  IN IF "image" \notin DOMAIN cp THEN {}
     ELSE IF pc = "populate" /\ pc' = "words"
     THEN {<<doc'.tables[2][rows[n][1] + 1][cp["image"] + 1],
             FixturesData[rows[n][2] + 1]>> : n \in 1..Len(rows)}
     ELSE IF pc = "addrows"
     THEN {<<doc'.tables[2][insert_position + 1][cp["image"] + 1],
             FixturesData[idx + 1]>>}
     ELSE {}

Storable(fixture) ==
  /\ XmlOk(fixture.name) /\ XmlOk(fixture.desc) /\ XmlOk(fixture.hsn)
  /\ XmlOk(fixture.qty) /\ XmlOk(fixture.unit) /\ XmlOk(fixture.price)
  /\ XmlOk(fixture.total) /\ XmlOk(fixture.words) /\ XmlOk(fixture.specifications)

\* the rows a step of table population has just filled without raising:
\* the row after the step, with the fixture placed in it
RowsFilled ==
  LET table == doc.tables[2]
      rows == FindFixtureRows(table, Len(FixturesData), 2, <<>>)
  IN IF pc = "populate" /\ pc' = "words"
     THEN {<<doc'.tables[2][rows[n][1] + 1], FixturesData[rows[n][2] + 1]>> :
             n \in 1..Len(rows)}
     ELSE IF pc = "addrows" /\ idx \notin fillFailed'
     THEN {<<doc'.tables[2][insert_position + 1], FixturesData[idx + 1]>>}
     ELSE {}

RoleAbsent(table, rl) ==
  \A c \in 1..Len(table[1]) : HeaderRole(Lower(Strip(CellText(table[1][c])))) # rl

\* the cell content a role's value makes
RoleCell(fixture, serial, rl) ==
  (CASE rl = "sr" -> TextWrite(0, Str(serial))
     [] rl = "description" -> TextWrite(0, DescriptionText(fixture))
     [] rl = "image" -> ImageWrite(0, fixture)
     [] rl = "qty" -> TextWrite(0, fixture.qty)
     [] rl = "rate" -> TextWrite(0, fixture.price)
     [] rl = "per" -> TextWrite(0, fixture.unit)
     [] rl = "amount" -> TextWrite(0, fixture.total)).cell

\* the data rows a step of table population has just filled: the row
\* before the writes, the row after, the fixture and its serial number
FillSteps ==
  LET table == doc.tables[2]
      rows == FindFixtureRows(table, Len(FixturesData), 2, <<>>)
  IN IF pc = "populate" /\ pc' = "words"
     THEN {[old |-> table[rows[n][1] + 1],
            new |-> doc'.tables[2][rows[n][1] + 1],
            fixture |-> FixturesData[rows[n][2] + 1],
            serial |-> rows[n][2] + 1] : n \in 1..Len(rows)}
     ELSE IF pc = "addrows" /\ idx \notin fillFailed'
     THEN {[old |-> ClearAllCells(doc'.tables[2][insert_position + 1]),
            new |-> doc'.tables[2][insert_position + 1],
            fixture |-> FixturesData[idx + 1],
            serial |-> idx + 1]}
     ELSE {}

\* C14: when the header row has no keyword for a role, filling a fixture's
\* data row, in place or as an overflow row, writes that role's (non-empty)
\* value into no cell of the row; in particular the line total goes nowhere
\* when there is no "amount" header.
C14_AbsentRoleWrittenNowhere ==
  [][\A w \in FillSteps : \A rl \in Roles :
       (RoleAbsent(doc.tables[2], rl) /\ RoleCell(w.fixture, w.serial, rl) # TextCell(<<>>)) =>
         \A c \in 1..Len(w.new) :
           w.new[c] # w.old[c] => w.new[c] # RoleCell(w.fixture, w.serial, rl)]_vars

\* three fixtures were placed, the third in an overflow row, in a table
\* with no "amount" header: the rate is in its column, the total nowhere
C14_Witness ==
  /\ path = "fill" /\ pc = "done" /\ Len(fixtures) = 3
  /\ RoleAbsent(doc.tables[2], "amount")
  /\ Len(doc.tables[2]) = 7 /\ Len(doc0.tables[2]) = 5
  /\ LET cp == ColumnPositions(doc.tables[2])
     IN /\ CellText(doc.tables[2][6][cp["rate"] + 1]) = fixtures[3].price
        /\ CellText(doc.tables[2][2][cp["rate"] + 1]) = fixtures[1].price

\* C15: whenever the pricing table is populated, in generate_quotation and
\* in quotation_download, the fixture list handed to table population has
\* at least two fixtures.
C15_AtLeastTwoFixtures ==
  (Dashboard /\ pc = "populate") => Len(FixturesData) >= 2

\* C16: no fixture entry stored in any Quotation's fixtures_data carries
\* image bytes, after any sequence of save_quotation_draft,
\* generate_quotation and quotation_edit requests.
C16_NoImageBytesStored ==
  \A n \in 1..Len(quotations) : \A m \in 1..Len(quotations[n].fixtures_data) :
    quotations[n].fixtures_data[m].image = "none"

\* a generated quotation and a draft, each with an entry flagged as having
\* an image, are stored
C16_Witness ==
  /\ path = "store"
  /\ \E n \in 1..Len(quotations) :
       /\ quotations[n].status = "generated"
       /\ \E m \in 1..Len(quotations[n].fixtures_data) :
            quotations[n].fixtures_data[m].has_image
  /\ \E n \in 1..Len(quotations) :
       /\ quotations[n].status = "draft"
       /\ \E m \in 1..Len(quotations[n].fixtures_data) :
            quotations[n].fixtures_data[m].has_image

\* C17: every stored DraftImage belongs to a quotation whose status is
\* "draft", after any sequence of save_quotation_draft and
\* generate_quotation requests.
C17_ImagesOfDraftsOnly ==
  \A i \in draft_images : quotations[i.quotation].status = "draft"

\* C18: a generate_quotation request that failed has ended (the error page
\* is its response) and has stored no download file in the session; the
\* session holds the request's file only once the document is serialized.
C18_NoFileOnFailure ==
  [][/\ pc # "error"
     /\ path = "generate" =>
          /\ pc' = "error" => session_file' = session_file
          /\ session_file' # session_file => (pc = "save" /\ pc' = "done")]_vars

\* a generate_quotation request failed while filling the table, after the
\* record was written; the session still holds the earlier file only
C18_Witness ==
  /\ path = "generate" /\ pc = "error" /\ srFinished /\ tableTouched
  /\ session_file = PreviousFile
  /\ quotations # <<>>

\* the fixture rows of the template's pricing table
TemplateFixtureRows(table) ==
  {r \in 2..Len(table) : IsFixtureRowText(RowText(table[r]))}

\* with more than two fixtures and a table as described, the call of
\* add_fixture_rows_to_table clones no row, keeps the row count and does
\* not raise
ClonesNothing(described) ==
  (path = "fill" /\ Len(fixtures) > 2 /\ described) =>
    /\ pc' \notin {"addrows", "error"}
    /\ Len(doc'.tables[2]) = Len(doc.tables[2])

\* C19 as stated: with more than two fixtures and fewer than two template
\* fixture rows, add_fixture_rows_to_table clones no row, keeps the row
\* count and raises nothing.
C19_NoCloneBelowTwoFixtureRows ==
  [][ClonesNothing(Cardinality(TemplateFixtureRows(doc0.tables[2])) < 2)]_vars

\* C19 amended: with more than two fixtures and a table of fewer than two
\* rows (no template fixture row below the header), add_fixture_rows_to_table
\* clones no row, leaves row count and cell contents as they are and raises
\* nothing.
C19_NoCloneWithoutTemplateRow ==
  [][/\ ClonesNothing(Len(doc0.tables[2]) < 2)
     /\ (path = "fill" /\ Len(fixtures) > 2 /\ Len(doc0.tables[2]) < 2) => doc' = doc]_vars

\* three fixtures were handed to a header-only table and the view is through
C19_Witness ==
  /\ path = "fill" /\ pc = "done" /\ Len(fixtures) = 3
  /\ Len(doc0.tables[2]) = 1 /\ doc = doc0

\* the numbers that open the blocks of a built content: a digit at the
\* start of a line, followed by ". "
RECURSIVE LeadNumbersFrom(_, _)
LeadNumbersFrom(content, p) ==
  IF p + 2 > Len(content) THEN <<>>
  ELSE (IF /\ content[p] \in Digits /\ content[p + 1] = "." /\ content[p + 2] = " "
           /\ (p = 1 \/ content[p - 1] = "\n")
        THEN <<content[p]>> ELSE <<>>)
       \o LeadNumbersFrom(content, p + 1)

LeadNumbers(content) == LeadNumbersFrom(content, 1)

\* the contents generate_quotation built, as the replacements hold them
Built(tag) ==
  LET n == CHOOSE m \in 1..Len(replacements) : replacements[m].old = <<tag>>
  IN replacements[n].new

HasBuilt == path = "generate" /\ replacements # <<>>

\* the block numbers are 1, 2, ..., k
GapFree(content) ==
  LET numbers == LeadNumbers(content)
  IN \A m \in 1..Len(numbers) : <<numbers[m]>> = Str(m)

\* the block numbers are the positions of the fixtures of the set kept,
\* in increasing order
NumberedByPosition(content, kept) ==
  LET numbers == LeadNumbers(content)
      pos(m) == CHOOSE n \in 1..6 : Str(n) = <<numbers[m]>>
  IN /\ Len(numbers) = Cardinality(kept)
     /\ \A m \in 1..Len(numbers) : pos(m) \in kept
     /\ \A m \in 1..(Len(numbers) - 1) : pos(m) < pos(m + 1)

\* C20 as stated: in the inclusions, scope and specifications content the
\* numbers of the listed blocks are 1, 2, ..., k without gaps, for every
\* fixture list.
C20_BlocksNumberedWithoutGaps ==
  HasBuilt => /\ GapFree(Built("<inclusion>"))
              /\ GapFree(Built("<scope>"))
              /\ GapFree(Built("<specification>"))

\* C20 amended: each listed block carries the 1-based position of its
\* fixture in the fixture list, in increasing order; the numbers are
\* 1, 2, ..., k exactly when no fixture before the last listed one is left
\* out.
C20_BlocksNumberedByPosition ==
  HasBuilt =>
    LET listed == {n \in 1..Len(fixtures) : Listed(fixtures[n])}
        specified == {n \in 1..Len(fixtures) : Strip(fixtures[n].specifications) # <<>>}
    IN /\ NumberedByPosition(Built("<inclusion>"), listed)
       /\ NumberedByPosition(Built("<scope>"), listed)
       /\ NumberedByPosition(Built("<specification>"), specified)
       /\ GapFree(Built("<inclusion>")) <=> listed = 1..Cardinality(listed)
       /\ GapFree(Built("<specification>")) <=> specified = 1..Cardinality(specified)

\* three fixtures, the second with neither name nor description: the
\* inclusions and the scope list blocks 1 and 3
C20_Witness ==
  /\ HasBuilt /\ Len(fixtures) = 3
  /\ LeadNumbers(Built("<inclusion>")) = <<"1", "3">>
  /\ LeadNumbers(Built("<scope>")) = <<"1", "3">>

MaxSequencePlusOne(stored, fy) ==
  LET matching == {i \in stored : /\ StartsWith(i, <<"K", "E", "C", "/">>)
                                  /\ EndsWith(i, <<"/">> \o fy)}
      seqs == {IntOf(SplitSlash(i)[2]) : i \in matching}
  IN IF seqs = {} THEN 1 ELSE SetMax(seqs) + 1

\* C23: a call of generate_invoice_number with no other call under way
\* returns KEC/<n+1>/<fiscal year>, n the greatest stored sequence number of
\* the fiscal year, and never a stored number.
C23_ReturnsMaxPlusOne ==
  [][\A c \in Callers :
       (/\ path = "invoice"
        /\ calls[c].pc = "recheck" /\ calls'[c].pc = "handed"
        /\ \A o \in Callers \ {c} : calls[o].pc = "idle") =>
         /\ calls'[c].number =
              InvoiceNumber(MaxSequencePlusOne(invoices, fiscal_year(today)),
                            fiscal_year(today))
         /\ calls'[c].number \notin invoices]_vars

\* the serial of a Create ID
SerialOf(create_id) == IntOf(SubSeq(create_id, 4, Len(create_id) - 6))

\* the month code of a Create ID
MonthCodeOf(create_id) == SubSeq(create_id, Len(create_id) - 5, Len(create_id) - 4)

\* C24: the serial of an inquiry's Create ID is one more than the number of
\* earlier inquiries of the same month and year (001 for the first of a
\* month), and inquiries of two different months carry different month
\* codes.
C24_PerMonthCounter ==
  /\ \A n \in 1..Len(inquiries) :
       SerialOf(inquiries[n].create_id) =
         1 + Cardinality({m \in 1..(n - 1) : /\ inquiries[m].year = inquiries[n].year
                                             /\ inquiries[m].month = inquiries[n].month})
  /\ \A n, m \in 1..Len(inquiries) :
       inquiries[n].month # inquiries[m].month =>
         MonthCodeOf(inquiries[n].create_id) # MonthCodeOf(inquiries[m].create_id)

\* a visited paragraph of d still holds a key whose replacement is non-empty
\* and differs from the key
KeyStillOccurs(d, map) ==
  \E loc \in ParLocs(d) : \E n \in 1..Len(map) :
    /\ ~Passed(d, loc)
    /\ map[n].new # <<>> /\ map[n].new # map[n].old
    /\ Contains(ParText(ParAt(d, loc)), map[n].old)

\* the map, applied entry by entry, gives the text of a visited paragraph
\* of d something else than it had
TextStillChanges(d, map) ==
  \E loc \in ParLocs(d) :
    /\ ~Passed(d, loc)
    /\ Substituted(ParText(ParAt(d, loc)), map, Len(map)) # ParText(ParAt(d, loc))

\* a call of seek_and_replace after the first has returned
LaterCallReturned == sr_calls >= 2 /\ pc = "sr_end"

\* C22 as stated: a second call of seek_and_replace with the same map leaves
\* the document unchanged exactly when, after the first call, no key with a
\* non-empty replacement different from the key occurs in a visited paragraph.
C22_SecondPassUnchangedIffNoKeyOccurs ==
  LaterCallReturned => (doc = doc0 <=> ~KeyStillOccurs(doc0, replacements))

\* C22 amended: a second call of seek_and_replace with the same map leaves
\* the document unchanged exactly when the map, applied entry by entry,
\* gives every visited paragraph its own text back; this is so whenever no
\* key with a non-empty replacement different from the key occurs in a
\* visited paragraph.
C22_SecondPassUnchangedIffTextKept ==
  LaterCallReturned =>
    /\ doc = doc0 <=> ~TextStillChanges(doc0, replacements)
    /\ ~KeyStillOccurs(doc0, replacements) => doc = doc0

\* a second call has returned the document as it got it although a key with
\* a different non-empty replacement still occurred: the entries undo each
\* other
C22_Witness ==
  /\ LaterCallReturned
  /\ doc = doc0
  /\ KeyStillOccurs(doc0, replacements)

\* C25: a generate_quotation request that has failed has left no record with
\* status "generated": neither a new one nor a draft turned into one (the
\* store held no generated record when the request came in).
C25_FailedRequestLeavesNoGenerated ==
  (path = "generate" /\ pc = "error") =>
    \A n \in 1..Len(quotations) : quotations[n].status # "generated"

\* C26: every regeneration of the same quote number by the same user
\* succeeds, and no two of the stored revisions of the quote share a revision
\* or a quote number, however many regenerations there were.
C26_EveryRegenerationSucceeds ==
  path = "regen" =>
    /\ pc # "error"
    /\ \A m, n \in 1..Len(quotations) :
         m # n => /\ quotations[m].quote_number # quotations[n].quote_number
                  /\ quotations[m].revision # quotations[n].revision

\* the rows STEP 3 has filled as fixture data rows: their serial cell holds
\* the number of one of the fixtures
FilledDataRows(table) ==
  {r \in 2..Len(table) :
     \E k \in 1..Len(FixturesData) : SerialText(table, r) = Str(k)}

\* C27: STEP 4 of populate_pricing_table_with_fixtures leaves every row that
\* STEP 3 filled as a fixture data row as it was, and writes each fixture's
\* words into the row right below that fixture's data row, whatever the
\* fixture's texts contain.
C27_WordsRowsSpareDataRows ==
  [][(Dashboard /\ pc = "words" /\ pc' # "error") =>
       \A r \in FilledDataRows(doc.tables[2]) :
         LET table == doc.tables[2]
             desc_col == ColumnPositions(table)["description"] + 1
             k == CHOOSE k \in 1..Len(FixturesData) : SerialText(table, r) = Str(k)
         IN /\ doc'.tables[2][r] = table[r]
            /\ r + 1 <= Len(table)
            /\ CellText(doc'.tables[2][r + 1][desc_col]) = WordsText(FixturesData[k])]_vars

\* C28: no save_quotation_draft, generate_quotation or quotation_edit
\* request gives a quotation that is not a draft the status "draft", and
\* save_quotation_draft changes no quotation that is not a draft.
C28_GeneratedNeverDraftAgain ==
  [][/\ \A n \in 1..Len(quotations) :
          quotations[n].status # "draft" =>
            /\ n <= Len(quotations')
            /\ quotations'[n].status # "draft"
     /\ (\E n \in 1..Len(quotations) :
           quotations[n].status # "draft" /\ quotations'[n] # quotations[n])
          => ~SaveDraft]_vars

\* a draft was saved after a quotation of the same user had been generated,
\* and that quotation is still generated
C28_Witness ==
  /\ path = "store"
  /\ \E m, n \in 1..Len(quotations) :
       /\ m < n
       /\ quotations[m].status = "generated"
       /\ quotations[n].status = "draft"
       /\ quotations[m].created_by = quotations[n].created_by

\* the user has a quotation that is not a draft and whose number, without
\* its revision suffix, is quote_no
HasRevisionOf(db, quote_no, user) ==
  \E n \in 1..Len(db) :
    /\ db[n].created_by = user
    /\ db[n].status # "draft"
    /\ BaseQuoteNo(db[n].quote_number) = quote_no

\* C29: a generate_quotation request for a quote number of which the user
\* has neither a draft nor a revision that is not a draft stores a new
\* quotation under that very number with revision Rev A, also when the
\* user has a quotation whose number only begins with that number.
C29_OtherNumbersDoNotCount ==
  [][\A user \in Users, quote_no \in QuoteNos \ {<<>>}, fx \in FixtureLists :
       LET qd == [QuoteData(<<>>) EXCEPT !.quote_no = quote_no]
           res == GenerateStore(quotations, qd, PadFixtures(fx), user)
       IN (/\ Generate
           /\ res.ok
           /\ quotations' = res.quotations
           /\ ExistingDraft(quotations, quote_no, user) = 0
           /\ ~HasRevisionOf(quotations, quote_no, user)) =>
            /\ Len(quotations') = Len(quotations) + 1
            /\ quotations'[Len(quotations')].quote_number = quote_no
            /\ quotations'[Len(quotations')].revision = RevA]_vars

\* the session holds a file, written by a generate_quotation request of the
\* session's user that went through
FileOfGeneration(file, db) ==
  \A f \in file :
    /\ f.quotation_id \in 1..Len(db)
    /\ db[f.quotation_id].status = "generated"
    /\ db[f.quotation_id].created_by = RequestUser

\* C30: quotation_download_file returns a file exactly when the session
\* holds one and leaves the session without it, so that a further request
\* is redirected until a generate_quotation request has gone through; only
\* a generate_quotation request that stored a generated quotation of the
\* session's user puts a file into the session.
C30_FileServedAtMostOnce ==
  [][/\ quotation_download_file =>
          /\ response' = "file" <=> session_file # {}
          /\ response' = "redirect" <=> session_file = {}
          /\ session_file' = {}
     /\ (session_file' # {} /\ session_file' # session_file) =>
          /\ Generate
          /\ FileOfGeneration(session_file', quotations')
     /\ FileOfGeneration(session_file', quotations')]_vars

\* the file of a generation has been returned and the session no longer
\* holds it
C30_Witness ==
  /\ path = "store"
  /\ response = "file"
  /\ session_file = {}
  /\ \E n \in 1..Len(quotations) :
       quotations[n].status = "generated" /\ quotations[n].created_by = RequestUser

====
